---- MODULE Spec2Model ----
(***************************************************************************)
(* A model of basic-pitch-ts: the note decoder outputToNotesPoly (toMidi)  *)
(* and the inference driver BasicPitch.evaluateModel (inference).          *)
(*                                                                         *)
(* Activations are reals in the source.  Here they are integers on a       *)
(* common scale (a level v stands for v / 2), thresholds are on the same    *)
(* scale, and the rescaled onset matrix of getInferredOnsets is kept as    *)
(* exact fractions with one shared denominator.                            *)
(*                                                                         *)
(* A matrix is a function from rows 0..T-1 to rows; a row is a function    *)
(* from its stored columns to values.  A row has 88 columns in the source; *)
(* the columns that are not stored are columns that are zero in the input  *)
(* and therefore stay zero.  Column MAX_FREQ_IDX is always stored, so that *)
(* folds over a row end on the last column as they do in the source.       *)
(***************************************************************************)
EXTENDS Integers, Sequences, FiniteSets, TLC

(***************************************************************************)
(* Program constants.                                                      *)
(***************************************************************************)
MIDI_OFFSET == 21
MAX_FREQ_IDX == 87
ANNOTATIONS_N_SEMITONES == 88
AUDIO_SAMPLE_RATE == 22050
FFT_HOP == 256
AUDIO_WINDOW_LENGTH == 2
NUM_CHANNELS == 1
N_OVERLAPPING_FRAMES == 30
ANNOTATIONS_FPS == AUDIO_SAMPLE_RATE \div FFT_HOP
ANNOT_N_FRAMES == ANNOTATIONS_FPS * AUDIO_WINDOW_LENGTH
AUDIO_N_SAMPLES == AUDIO_SAMPLE_RATE * AUDIO_WINDOW_LENGTH - FFT_HOP
N_OVERLAP_OVER_2 == N_OVERLAPPING_FRAMES \div 2
OVERLAP_LENGTH_FRAMES == N_OVERLAPPING_FRAMES * FFT_HOP
HOP_SIZE == AUDIO_N_SAMPLES - OVERLAP_LENGTH_FRAMES

(***************************************************************************)
(* Bounds of the model.                                                    *)
(***************************************************************************)
\* an input matrix has at most MaxCells cells that may be non-zero
MaxCells == 4
\* the activation levels of the frames matrix
Levels == {0, 1, 2}
\* the levels of the onsets matrix
OnsetLevels == {0, 2}
\* the column sets that may be non-zero in an input
ColumnSets == {{0}, {MAX_FREQ_IDX - 1, MAX_FREQ_IDX}}

\* Optional<T>: null is the empty tuple, a value x is <<x>>
NULL == <<>>
\* the IEEE not-a-number, which compares false with everything
NaN == 0 - 1

Min(a, b) == IF a < b THEN a ELSE b
Max(a, b) == IF a > b THEN a ELSE b
\* a > b of two numbers of which either may be NaN
Gt(a, b) == a # NaN /\ b # NaN /\ a > b
\* Math.max of two numbers of which either may be NaN
MathMax(a, b) == IF a = NaN \/ b = NaN THEN NaN ELSE Max(a, b)

VARIABLES
  \* ---- outputToNotesPoly ----
  frames,           \* the caller's frames matrix
  onsets,           \* the caller's onsets matrix
  opts,             \* the remaining arguments of outputToNotesPoly
  pc,               \* where the call is
  noteStarts,       \* rows of the onset candidates, reversed
  freqIdxs,         \* columns of the onset candidates, reversed
  idx,              \* index of the next onset candidate of the map
  remainingEnergy,  \* the working copy of frames
  noteEvents,       \* the notes found so far
  nIterations,      \* iterations of the melodia loop so far
  \* ---- evaluateModel ----
  buffer,           \* the resampledBuffer argument
  dpc,              \* where the call is
  error,            \* the error evaluateModel failed with, or null
  nWindows,         \* reshapedInput.shape[0]
  nOutputFramesOriginal,
  calculatedFrames,
  windowIdx,        \* the window index i of the for loop
  chunk,            \* the unwrapped output of window i
  faults,           \* what the collaborators will do (the environment)
  log,              \* the calls made to the collaborators, in order
  delivered,        \* the rows handed to the sink, in order
  \* ---- a call of one of the other functions ----
  call,             \* the function called and its arguments, or null
  returned          \* what the call returned, or null while it has not

pvars == <<frames, onsets, opts, pc, noteStarts, freqIdxs, idx,
           remainingEnergy, noteEvents, nIterations>>
dvars == <<buffer, dpc, error, nWindows, nOutputFramesOriginal, calculatedFrames,
           windowIdx, chunk, faults, log, delivered>>
fvars == <<call, returned>>
vars == <<pvars, dvars, fvars>>

(***************************************************************************)
(* Matrices.                                                               *)
(***************************************************************************)
nRows(m) == Cardinality(DOMAIN m)
Rows(m) == 0 .. (nRows(m) - 1)
Cols(m) == DOMAIN m[0]
\* m[r][c], where a column that is not stored is zero
Cell(m, r, c) == IF c \in DOMAIN m[r] THEN m[r][c] ELSE 0
\* m[r][c] = v; a column that is not stored holds zero and is only ever
\* written with zero
SetCell(m, r, c, v) ==
  IF c \in DOMAIN m[r] THEN [m EXCEPT ![r][c] = v] ELSE m

RECURSIVE Ascending(_)
\* the elements of a finite set of integers in ascending order
Ascending(S) ==
  IF S = {} THEN <<>>
  ELSE LET lo == CHOOSE x \in S : \A y \in S : x <= y
           hi == CHOOSE x \in S : \A y \in S : x >= y
           mid == (lo + hi) \div 2
       IN IF lo = hi THEN <<lo>>
          ELSE Ascending({x \in S : x <= mid}) \o Ascending({x \in S : x > mid})

Reverse(s) == [n \in 1 .. Len(s) |-> s[Len(s) + 1 - n]]

RECURSIVE Flatten(_)
\* the concatenation of the sequences of ss, in order
Flatten(ss) ==
  IF ss = <<>> THEN <<>>
  ELSE IF Len(ss) = 1 THEN ss[1]
  ELSE LET half == Len(ss) \div 2
       IN Flatten(SubSeq(ss, 1, half)) \o Flatten(SubSeq(ss, half + 1, Len(ss)))

(***************************************************************************)
(* Ported librosa and numpy functions.                                     *)
(***************************************************************************)
\* hzToMidi(hz) in millionths of a semitone, 12 * (log2(hz) - log2(440)) + 69
\* rounded to the nearest millionth, for the frequencies the model uses
hzToMidi(hz) ==
  CASE hz = 20   ->  15486821
    [] hz = 30   ->  22506371
    [] hz = 55   ->  33000000
    [] hz = 440  ->  69000000
    [] hz = 3951 -> 106999709
    [] hz = 4186 -> 107999963
    [] hz = 4200 -> 108057767
    [] hz = 5000 -> 111076232

RECURSIVE argMaxReduce(_, _, _)
\* arr.reduce((maxIndex, currentValue, index) =>
\*   arr[maxIndex] > currentValue ? maxIndex : index, initial)
\* over the indices idxs, in order; arr[-1] is undefined and compares false
argMaxReduce(arr, idxs, initial) ==
  IF idxs = <<>> THEN initial
  ELSE LET maxIndex == argMaxReduce(arr, SubSeq(idxs, 1, Len(idxs) - 1), initial)
           index == idxs[Len(idxs)]
       IN IF maxIndex \in DOMAIN arr /\ Gt(arr[maxIndex], arr[index])
          THEN maxIndex ELSE index

argMax(arr) ==
  IF DOMAIN arr = {} THEN NULL
  ELSE <<argMaxReduce(arr, Ascending(DOMAIN arr), 0 - 1)>>

\* the cells of m in row-major order
RowMajor(m) ==
  IF nRows(m) = 0 THEN <<>>
  ELSE LET cs == Ascending(Cols(m))
       IN Flatten([r \in 1 .. nRows(m) |->
                     [n \in 1 .. Len(cs) |-> <<r - 1, cs[n]>>]])

\* the cells of m column by column
ColMajor(m) ==
  LET cs == Ascending(Cols(m))
  IN Flatten([n \in 1 .. Len(cs) |->
                [r \in 1 .. nRows(m) |-> <<r - 1, cs[n]>>]])

\* the cells of arr2d that are not below threshold, in row-major order
whereGreaterThanAxis1_OrEqual(arr2d, threshold) ==
  LET NotBelow(cell) == ~Gt(threshold, arr2d[cell[1]][cell[2]])
  IN SelectSeq(RowMajor(arr2d), NotBelow)

\* the cells of arr2d that are greater than threshold, in row-major order;
\* the result is the sequence of pairs (outputX[n], outputY[n])
whereGreaterThanAxis1(arr2d, threshold) ==
  LET Greater(cell) == Gt(arr2d[cell[1]][cell[2]], threshold)
  IN SelectSeq(RowMajor(arr2d), Greater)

RECURSIVE MaxOf(_, _)
\* Math.max(prev, ...row)
MaxOf(prev, vals) ==
  IF vals = {} THEN prev
  ELSE LET v == CHOOSE x \in vals : TRUE
       IN MaxOf(MathMax(prev, v), vals \ {v})

\* array.reduce((prev, row) => Math.max(prev, ...row), 0)
globalMax(array) ==
  MaxOf(0, {array[r][c] : r \in DOMAIN array, c \in UNION {DOMAIN array[r] : r \in DOMAIN array}})

\* element-wise minimum of the matrices of a sequence
min3dForAxis0(array) ==
  [y \in DOMAIN array[1] |-> [z \in DOMAIN array[1][y] |->
     LET vs == {array[x][y][z] : x \in DOMAIN array}
     IN CHOOSE v \in vs : \A w \in vs : v <= w]]

\* element-wise Math.max of the matrices of a sequence
max3dForAxis0(array) ==
  [y \in DOMAIN array[1] |-> [z \in DOMAIN array[1][y] |->
     MaxOf(array[1][y][z], {array[x][y][z] : x \in DOMAIN array})]]

\* the cell (row, col) is a relative maximum along axis 0
isRelMax(array, order, row, col) ==
  \A comparisonRow \in Max(0, row - order) .. Min(nRows(array) - 1, row + order) :
     comparisonRow # row => Gt(array[row][col], array[comparisonRow][col])

\* argRelMax: column by column, the rows that are relative maxima
argRelMax(array, order) ==
  LET IsMax(cell) == isRelMax(array, order, cell[1], cell[2])
  IN SelectSeq(ColMajor(array), IsMax)

(***************************************************************************)
(* constrainFrequency.                                                     *)
(***************************************************************************)
\* ToIntegerOrInfinity of a number given in millionths: truncation
ToInteger(micro) ==
  IF micro >= 0 THEN micro \div 1000000 ELSE 0 - ((0 - micro) \div 1000000)

\* Array.prototype.fill normalises a relative index against the length
RelativeIndex(k, len) == IF k < 0 THEN Max(len + k, 0) ELSE Min(k, len)

\* row.splice(start, end - start) padded with zeros at the end: the columns
\* of the range are removed and the columns after them move down
fill_Splice(row, start, end) ==
  LET from == RelativeIndex(start, ANNOTATIONS_N_SEMITONES)
      to == RelativeIndex(end, ANNOTATIONS_N_SEMITONES)
      removed == Max(to - from, 0)
  IN [c \in DOMAIN row |->
        IF c < from THEN row[c]
        ELSE IF c + removed \in DOMAIN row THEN row[c + removed] ELSE 0]

\* row.fill(0, start, end) on a row of 88 columns
fill(row, start, end) ==
  LET from == RelativeIndex(start, ANNOTATIONS_N_SEMITONES)
      to == RelativeIndex(end, ANNOTATIONS_N_SEMITONES)
  IN [c \in DOMAIN row |-> IF from <= c /\ c < to THEN 0 ELSE row[c]]

\* a bound is used when it is truthy: neither null nor 0
Truthy(freq) == freq # NULL /\ freq[1] # 0

\* what constrainFrequency leaves in one of the two matrices
constrainFrequency(m, maxFreq, minFreq) ==
  LET maxFreqIdx == ToInteger(hzToMidi(maxFreq[1]) - MIDI_OFFSET * 1000000)
      minFreqIdx == ToInteger(hzToMidi(minFreq[1]) - MIDI_OFFSET * 1000000)
      m1 == IF Truthy(maxFreq)
            THEN [r \in DOMAIN m |-> fill(m[r], maxFreqIdx, ANNOTATIONS_N_SEMITONES)]
            ELSE m
  IN IF Truthy(minFreq)
     THEN [r \in DOMAIN m1 |-> fill(m1[r], 0, minFreqIdx)]
     ELSE m1

(***************************************************************************)
(* getInferredOnsets.  The result is a matrix of numerators and the        *)
(* denominator they share: the cell is num[r][c] / den.                    *)
(***************************************************************************)
nDiff == 2

\* diffs[n]: frames minus frames shifted down by n rows of zeros
framesDiff(frms, n) ==
  [r \in DOMAIN frms |-> [c \in DOMAIN frms[r] |->
     frms[r][c] - (IF r < n THEN 0 ELSE frms[r - n][c])]]

\* frameDiff before it is rescaled: minimum of the diffs, negatives
\* clamped to 0, the first nDiff rows zeroed
frameDiffOf(frms) ==
  LET minDiff == min3dForAxis0([n \in 1 .. nDiff |-> framesDiff(frms, n)])
  IN [r \in DOMAIN frms |-> [c \in DOMAIN frms[r] |->
        IF r < nDiff THEN 0 ELSE Max(minDiff[r][c], 0)]]

getInferredOnsets(onsts, frms) ==
  LET frameDiff == frameDiffOf(frms)
      onsetMax == globalMax(onsts)
      frameDiffMax == globalMax(frameDiff)
  IN IF frameDiffMax = 0
     THEN \* every cell of frameDiff is 0, and (onsetMax * 0) / 0 is NaN
          [num |-> max3dForAxis0(<<onsts,
                      [r \in DOMAIN frms |-> [c \in DOMAIN frms[r] |-> NaN]]>>),
           den |-> 1]
     ELSE [num |-> max3dForAxis0(<<
                      [r \in DOMAIN onsts |-> [c \in DOMAIN onsts[r] |->
                         onsts[r][c] * frameDiffMax]],
                      [r \in DOMAIN frms |-> [c \in DOMAIN frms[r] |->
                         onsetMax * frameDiff[r][c]]]>>),
           den |-> frameDiffMax]

(***************************************************************************)
(* outputToNotesPoly.                                                      *)
(***************************************************************************)
\* the onset candidates: the peaks of the inferred onsets that are greater
\* than onsetThresh, last one first
onsetCandidates(onsts, frms, o) ==
  LET inferredOnsets == IF o.inferOnsets
                        THEN getInferredOnsets(onsts, frms)
                        ELSE [num |-> onsts, den |-> 1]
      peaks == argRelMax(inferredOnsets.num, 1)
      isPeak(r, c) == \E n \in DOMAIN peaks : peaks[n] = <<r, c>>
      peakThresholdMatrix ==
        [r \in DOMAIN onsts |-> [c \in DOMAIN onsts[r] |->
           IF isPeak(r, c) THEN inferredOnsets.num[r][c] ELSE 0]]
  IN Reverse(whereGreaterThanAxis1(peakThresholdMatrix,
                                   o.onsetThresh * inferredOnsets.den))

\* a Prepare whose onset inference writes its result into the rows of the
\* caller's onsets instead of copies of them
Prepare_SharedOnsets ==
  /\ pc = "start"
  /\ LET cOnsets == constrainFrequency(onsets, opts.maxFreq, opts.minFreq)
         cFrames == constrainFrequency(frames, opts.maxFreq, opts.minFreq)
     IN /\ onsets' = IF opts.inferOnsets /\ nRows(frames) > 0
                      THEN getInferredOnsets(cOnsets, cFrames).num
                      ELSE cOnsets
        /\ frames' = cFrames
        /\ IF nRows(frames) = 0
           THEN \* frames[0].length and array[0].length: a TypeError
                /\ pc' = "error"
                /\ UNCHANGED <<noteStarts, freqIdxs, remainingEnergy>>
           ELSE LET cands == onsetCandidates(cOnsets, cFrames, opts)
                IN /\ noteStarts' = [n \in DOMAIN cands |-> cands[n][1]]
                   /\ freqIdxs' = [n \in DOMAIN cands |-> cands[n][2]]
                   /\ remainingEnergy' = cFrames
                   /\ pc' = "onsets"
  /\ UNCHANGED <<opts, idx, noteEvents, nIterations, dvars, fvars>>

\* everything before the map over the onset candidates
Prepare ==
  /\ pc = "start"
  /\ LET cOnsets == constrainFrequency(onsets, opts.maxFreq, opts.minFreq)
         cFrames == constrainFrequency(frames, opts.maxFreq, opts.minFreq)
     IN /\ onsets' = cOnsets
        /\ frames' = cFrames
        /\ IF nRows(frames) = 0
           THEN \* frames[0].length and array[0].length: a TypeError
                /\ pc' = "error"
                /\ UNCHANGED <<noteStarts, freqIdxs, remainingEnergy>>
           ELSE LET cands == onsetCandidates(cOnsets, cFrames, opts)
                IN /\ noteStarts' = [n \in DOMAIN cands |-> cands[n][1]]
                   /\ freqIdxs' = [n \in DOMAIN cands |-> cands[n][2]]
                   /\ remainingEnergy' = cFrames
                   /\ pc' = "onsets"
  /\ UNCHANGED <<opts, idx, noteEvents, nIterations, dvars, fvars>>

RECURSIVE extendOnset_NoReset(_, _, _, _, _, _, _)
\* a while loop that counts every frame below the threshold, consecutive or
\* not
extendOnset_NoReset(re, freqIdx, nFrames, thresh, tol, i, k) ==
  IF i < nFrames - 1 /\ k < tol
  THEN extendOnset_NoReset(re, freqIdx, nFrames, thresh, tol, i + 1,
                           IF Cell(re, i, freqIdx) < thresh THEN k + 1 ELSE k)
  ELSE <<i, k>>

RECURSIVE extendOnset(_, _, _, _, _, _, _)
\* the while loop of the onset pass; the result is <<i, k>>
extendOnset(re, freqIdx, nFrames, thresh, tol, i, k) ==
  IF i < nFrames - 1 /\ k < tol
  THEN extendOnset(re, freqIdx, nFrames, thresh, tol, i + 1,
                   IF Cell(re, i, freqIdx) < thresh THEN k + 1 ELSE 0)
  ELSE <<i, k>>

\* remainingEnergy[j][freqIdx] and its two neighbours set to 0
zeroThree(re, j, freqIdx) ==
  LET a == SetCell(re, j, freqIdx, 0)
      b == IF freqIdx < MAX_FREQ_IDX THEN SetCell(a, j, freqIdx + 1, 0) ELSE a
  IN IF freqIdx > 0 THEN SetCell(b, j, freqIdx - 1, 0) ELSE b

RECURSIVE zeroRows(_, _, _, _)
\* for (j = from; j < to; ++j) zero the three cells of row j
zeroRows(re, freqIdx, from, to) ==
  IF from < to THEN zeroRows(zeroThree(re, from, freqIdx), freqIdx, from + 1, to)
  ELSE re

RECURSIVE sumColumn(_, _, _, _)
\* the sum of frames[from .. to - 1][freqIdx]
sumColumn(frms, freqIdx, from, to) ==
  IF from < to
  THEN Cell(frms, from, freqIdx) + sumColumn(frms, freqIdx, from + 1, to)
  ELSE 0

\* if the note is too short, skip it
tooShort_Strict(len, minNoteLen) == len < minNoteLen

tooShort(len, minNoteLen) == len <= minNoteLen

\* a note event that starts one frame early
noteEvent_Early(frms, start, end, freqIdx) ==
  [startFrame |-> start - 1,
   durationFrames |-> end - start,
   pitchMidi |-> freqIdx + MIDI_OFFSET,
   amplitudeSum |-> 0]

\* a note event; its amplitude is amplitudeSum / durationFrames
noteEvent(frms, start, end, freqIdx) ==
  [startFrame |-> start,
   durationFrames |-> end - start,
   pitchMidi |-> freqIdx + MIDI_OFFSET,
   amplitudeSum |-> sumColumn(frms, freqIdx, start, end)]

\* a callback that works on frames itself instead of a copy of it
OnsetNote_SharedFrames ==
  /\ pc = "onsets"
  /\ idx <= Len(noteStarts)
  /\ LET noteStartIdx == noteStarts[idx]
         freqIdx == freqIdxs[idx]
         nFrames == nRows(frames)
         ik == extendOnset(remainingEnergy, freqIdx, nFrames, opts.frameThresh,
                           opts.energyTolerance, noteStartIdx + 1, 0)
         end == ik[1] - ik[2]
     IN IF noteStartIdx >= nFrames - 1 \/ tooShort(end - noteStartIdx, opts.minNoteLen)
        THEN UNCHANGED <<frames, remainingEnergy, noteEvents>>
        ELSE /\ remainingEnergy' = zeroRows(remainingEnergy, freqIdx, noteStartIdx, end)
             /\ frames' = remainingEnergy'
             /\ noteEvents' = Append(noteEvents,
                                     noteEvent(frames, noteStartIdx, end, freqIdx))
  /\ idx' = idx + 1
  /\ UNCHANGED <<onsets, opts, pc, noteStarts, freqIdxs, nIterations, dvars, fvars>>

\* the callback of noteStarts.map for the candidate at idx
OnsetNote ==
  /\ pc = "onsets"
  /\ idx <= Len(noteStarts)
  /\ LET noteStartIdx == noteStarts[idx]
         freqIdx == freqIdxs[idx]
         nFrames == nRows(frames)
         ik == extendOnset(remainingEnergy, freqIdx, nFrames, opts.frameThresh,
                           opts.energyTolerance, noteStartIdx + 1, 0)
         end == ik[1] - ik[2]
     IN IF noteStartIdx >= nFrames - 1 \/ tooShort(end - noteStartIdx, opts.minNoteLen)
        THEN UNCHANGED <<remainingEnergy, noteEvents>>
        ELSE /\ remainingEnergy' = zeroRows(remainingEnergy, freqIdx, noteStartIdx, end)
             /\ noteEvents' = Append(noteEvents,
                                     noteEvent(frames, noteStartIdx, end, freqIdx))
  /\ idx' = idx + 1
  /\ UNCHANGED <<frames, onsets, opts, pc, noteStarts, freqIdxs, nIterations, dvars, fvars>>

\* the map is over: on to the melodia loop, or return
OnsetsDone ==
  /\ pc = "onsets"
  /\ idx > Len(noteStarts)
  /\ pc' = IF opts.melodiaTrick THEN "melodia" ELSE "done"
  /\ UNCHANGED <<frames, onsets, opts, noteStarts, freqIdxs, idx,
                 remainingEnergy, noteEvents, nIterations, dvars, fvars>>

RECURSIVE argMaxCell(_, _, _)
\* remainingEnergy.reduce((prevCoord, currRow, rowIdx) => ..., [0, 0]) from
\* row rowIdx on
argMaxCell(re, rowIdx, prevCoord) ==
  IF rowIdx >= nRows(re) THEN prevCoord
  ELSE LET colMaxIdx == argMax(re[rowIdx])[1]
       IN argMaxCell(re, rowIdx + 1,
            IF re[rowIdx][colMaxIdx] > Cell(re, prevCoord[1], prevCoord[2])
            THEN <<rowIdx, colMaxIdx>> ELSE prevCoord)

RECURSIVE forwardPass(_, _, _, _, _, _, _)
\* the forward while loop of the melodia pass: [re, i, k]
forwardPass(re, freqIdx, nFrames, thresh, tol, i, k) ==
  IF i < nFrames - 1 /\ k < tol
  THEN forwardPass(zeroThree(re, i, freqIdx), freqIdx, nFrames, thresh, tol,
                   i + 1, IF Cell(re, i, freqIdx) < thresh THEN k + 1 ELSE 0)
  ELSE [re |-> re, i |-> i, k |-> k]

RECURSIVE backwardPass(_, _, _, _, _, _)
\* the backward while loop of the melodia pass: [re, i, k]
backwardPass(re, freqIdx, thresh, tol, i, k) ==
  IF i > 0 /\ k < tol
  THEN backwardPass(zeroThree(re, i, freqIdx), freqIdx, thresh, tol,
                    i - 1, IF Cell(re, i, freqIdx) < thresh THEN k + 1 ELSE 0)
  ELSE [re |-> re, i |-> i, k |-> k]

\* an iteration whose iEnd is the row the forward pass stopped at
melodiaPass_EndAtStop(re, nFrames, thresh, tol) ==
  LET mid == argMaxCell(re, 0, <<0, 0>>)
      iMid == mid[1]
      freqIdx == mid[2]
      fwd == forwardPass(SetCell(re, iMid, freqIdx, 0), freqIdx, nFrames,
                         thresh, tol, iMid + 1, 0)
      bwd == backwardPass(fwd.re, freqIdx, thresh, tol, iMid - 1, 0)
  IN [re |-> bwd.re,
      iStart |-> bwd.i + 1 + bwd.k,
      iEnd |-> fwd.i - fwd.k,
      freqIdx |-> freqIdx,
      iMid |-> iMid]

\* an iteration that leaves the cell of the maximum as it is
melodiaPass_KeepMax(re, nFrames, thresh, tol) ==
  LET mid == argMaxCell(re, 0, <<0, 0>>)
      iMid == mid[1]
      freqIdx == mid[2]
      fwd == forwardPass(re, freqIdx, nFrames,
                         thresh, tol, iMid + 1, 0)
      bwd == backwardPass(fwd.re, freqIdx, thresh, tol, iMid - 1, 0)
  IN [re |-> bwd.re,
      iStart |-> bwd.i + 1 + bwd.k,
      iEnd |-> fwd.i - 1 - fwd.k,
      freqIdx |-> freqIdx,
      iMid |-> iMid]

\* one iteration of the melodia loop: [re, iStart, iEnd, freqIdx, iMid]
melodiaPass(re, nFrames, thresh, tol) ==
  LET mid == argMaxCell(re, 0, <<0, 0>>)
      iMid == mid[1]
      freqIdx == mid[2]
      fwd == forwardPass(SetCell(re, iMid, freqIdx, 0), freqIdx, nFrames,
                         thresh, tol, iMid + 1, 0)
      bwd == backwardPass(fwd.re, freqIdx, thresh, tol, iMid - 1, 0)
  IN [re |-> bwd.re,
      iStart |-> bwd.i + 1 + bwd.k,
      iEnd |-> fwd.i - 1 - fwd.k,
      freqIdx |-> freqIdx,
      iMid |-> iMid]

\* the model stops the melodia loop after MaxIterations iterations, more than
\* the cells a non-negative threshold lets it visit
MaxIterations == MaxCells + 1

\* one iteration of while (globalMax(remainingEnergy) > inferredFrameThresh)
MelodiaIteration ==
  /\ pc = "melodia"
  /\ globalMax(remainingEnergy) > opts.frameThresh
  /\ nIterations < MaxIterations
  /\ LET nFrames == nRows(frames)
         p == melodiaPass(remainingEnergy, nFrames, opts.frameThresh,
                          opts.energyTolerance)
     IN /\ remainingEnergy' = p.re
        /\ IF p.iStart < 0 \/ p.iEnd >= nFrames
           THEN pc' = "error" /\ UNCHANGED noteEvents
           ELSE /\ pc' = pc
                /\ noteEvents' =
                     IF tooShort(p.iEnd - p.iStart, opts.minNoteLen) THEN noteEvents
                     ELSE Append(noteEvents,
                                 noteEvent(frames, p.iStart, p.iEnd, p.freqIdx))
  /\ nIterations' = nIterations + 1
  /\ UNCHANGED <<frames, onsets, opts, noteStarts, freqIdxs, idx, dvars, fvars>>

\* the melodia loop ends and outputToNotesPoly returns noteEvents
MelodiaDone ==
  /\ pc = "melodia"
  /\ ~(globalMax(remainingEnergy) > opts.frameThresh)
  /\ pc' = "done"
  /\ UNCHANGED <<frames, onsets, opts, noteStarts, freqIdxs, idx,
                 remainingEnergy, noteEvents, nIterations, dvars, fvars>>

(***************************************************************************)
(* The calls of outputToNotesPoly the model explores.                      *)
(***************************************************************************)
\* the rows that are zero outside the columns of active
InputRows(active, levels) ==
  {row \in [active \cup {MAX_FREQ_IDX} -> levels \cup {0}] :
     \A c \in DOMAIN row : c \notin active => row[c] = 0}

\* the shapes of the inputs: T rows, non-zero in the columns of a column set
Shapes ==
  {sh \in (0 .. MaxCells) \X ColumnSets : sh[1] * Cardinality(sh[2]) <= MaxCells}

\* the option records; frameThresh is a number (a null frameThresh, which
\* makes the threshold mean + std of frames, is not explored)
Options ==
  [onsetThresh : {1},
   frameThresh : {0 - 1, 0, 1},
   minNoteLen : {0, 1},
   inferOnsets : BOOLEAN,
   maxFreq : {NULL},
   minFreq : {NULL},
   melodiaTrick : BOOLEAN,
   energyTolerance : {1, 2}]

\* evaluateModel is not running
DriverIdle ==
  /\ buffer = NULL
  /\ dpc = "idle"
  /\ error = NULL
  /\ nWindows = 0
  /\ nOutputFramesOriginal = 0
  /\ calculatedFrames = 0
  /\ windowIdx = 0
  /\ chunk = NULL
  /\ faults = NULL
  /\ log = <<>>
  /\ delivered = <<>>

(***************************************************************************)
(* BasicPitch.evaluateModel.                                               *)
(*                                                                         *)
(* A tensor of rows is a view [name, window, first, count]: rows first ..  *)
(* first + count - 1 of the output called name the Model returned for a    *)
(* window.  The row at position j of that output is <<name, window, j>>.   *)
(***************************************************************************)
OutputNames == {"frames", "onsets", "contours"}

\* the rows of a view, in order
rowsOf(t) == [n \in 1 .. t.count |-> <<t.name, t.window, t.first + n - 1>>]

\* prepareData: the number of windows tf.signal.frame(wavSamples,
\* AUDIO_N_SAMPLES, HOP_SIZE, true, 0) cuts from the padded samples, one per
\* start 0, HOP_SIZE, 2 * HOP_SIZE, ... below their number
prepareData(length) ==
  LET size == OVERLAP_LENGTH_FRAMES \div 2 + length
  IN (size + HOP_SIZE - 1) \div HOP_SIZE

\* evaluateSingleFrame: the three outputs of the Model for one window; the
\* Model decides how many rows each has
evaluateSingleFrame(batchNumber) ==
  [name \in OutputNames |->
     [name |-> name, window |-> batchNumber, first |-> 0,
      count |-> faults.rows[name]]]

\* unwrapOutput: result.slice([0, N_OVERLAP_OVER_2, 0],
\*                            [-1, result.shape[1] - 2 * N_OVERLAP_OVER_2, -1])
unwrapOutput(result) ==
  [result EXCEPT !.first = @ + N_OVERLAP_OVER_2,
                 !.count = @ - 2 * N_OVERLAP_OVER_2]

\* tensor.slice([0, 0], [size, -1])
sliceRows(t, size) == [t EXCEPT !.count = size]

\* Math.floor(audioOriginalLength * (ANNOTATIONS_FPS / AUDIO_SAMPLE_RATE));
\* the double product has the floor of the exact quotient for every length
\* below 3000000
outputFramesOriginal(audioOriginalLength) ==
  (audioOriginalLength * ANNOTATIONS_FPS) \div AUDIO_SAMPLE_RATE

\* entry checks that look at the sample rate alone
Validate_RateOnly ==
  /\ dpc = "start"
  /\ IF buffer.kind = "AudioBuffer" /\ buffer.sampleRate # <<AUDIO_SAMPLE_RATE>>
     THEN /\ dpc' = "failed"
          /\ error' = <<"sample rate">>
          /\ UNCHANGED <<nWindows, nOutputFramesOriginal>>
     ELSE /\ nWindows' = prepareData(buffer.length)
          /\ nOutputFramesOriginal' = outputFramesOriginal(buffer.length)
          /\ dpc' = "loop"
          /\ UNCHANGED error
  /\ UNCHANGED <<buffer, calculatedFrames, windowIdx, chunk, faults, log,
                 delivered, pvars, fvars>>

\* the entry checks and prepareData
Validate ==
  /\ dpc = "start"
  /\ IF buffer.kind = "AudioBuffer" /\ buffer.sampleRate # <<AUDIO_SAMPLE_RATE>>
     THEN /\ dpc' = "failed"
          /\ error' = <<"sample rate">>
          /\ UNCHANGED <<nWindows, nOutputFramesOriginal>>
     ELSE IF buffer.kind = "AudioBuffer" /\ buffer.numberOfChannels # <<NUM_CHANNELS>>
     THEN /\ dpc' = "failed"
          /\ error' = <<"not mono">>
          /\ UNCHANGED <<nWindows, nOutputFramesOriginal>>
     ELSE /\ nWindows' = prepareData(buffer.length)
          /\ nOutputFramesOriginal' = outputFramesOriginal(buffer.length)
          /\ dpc' = "loop"
          /\ UNCHANGED error
  /\ UNCHANGED <<buffer, calculatedFrames, windowIdx, chunk, faults, log,
                 delivered, pvars, fvars>>

\* the number of calls of percentCallback so far
progressCalls == Cardinality({n \in DOMAIN log : log[n].call = "progress"})

\* percentCallback(percent): the call is logged; the callback may throw,
\* and nothing catches it
percentCallback(percent, next) ==
  /\ log' = Append(log, [call |-> "progress", percent |-> percent])
  /\ IF faults.progressThrowsAt = <<progressCalls>>
     THEN dpc' = "failed" /\ error' = <<"progress callback">>
     ELSE dpc' = next /\ UNCHANGED error

\* a fraction of the windows that counts the window about to run as done
percent_Next(w, n) == <<w + 1, n>>

\* i / reshapedInput.shape[0], as the pair of numerator and denominator
percent(w, n) == <<w, n>>

\* the head of the for loop: percentCallback(i / reshapedInput.shape[0])
ReportProgress ==
  /\ dpc = "loop"
  /\ windowIdx < nWindows
  /\ percentCallback(percent(windowIdx, nWindows), "execute")
  /\ UNCHANGED <<buffer, nWindows, nOutputFramesOriginal, calculatedFrames,
                 windowIdx, chunk, faults, delivered, pvars, fvars>>

\* tf.slice throws when it is asked for more rows than the tensor has: the
\* cut to framesToOutput rows fails on an output shorter than that
sliceThrows(results, calculated, nOriginal) ==
  LET unwrapped == [name \in OutputNames |-> unwrapOutput(results[name])]
      framesToOutput == nOriginal - calculated
  IN /\ unwrapped["frames"].count + calculated >= nOriginal
     /\ \E name \in OutputNames : framesToOutput > unwrapped[name].count

\* the unwrapped outputs, never cut
chunkToOutput_Untrimmed(results, calculated, nOriginal) ==
  [name \in OutputNames |-> unwrapOutput(results[name])]

\* the chunk of window i that goes to the sink: the unwrapped outputs, cut
\* to framesToOutput rows when they reach the original length
chunkToOutput(results, calculated, nOriginal) ==
  LET unwrapped == [name \in OutputNames |-> unwrapOutput(results[name])]
      calculatedFramesTmp == unwrapped["frames"].count
      framesToOutput == nOriginal - calculated
  IN IF calculatedFramesTmp + calculated >= nOriginal
     THEN [name \in OutputNames |-> sliceRows(unwrapped[name], framesToOutput)]
     ELSE unwrapped

\* a driver that catches the failure of the Model and goes on to the next
\* window
ExecuteModel_Swallow ==
  /\ dpc = "execute"
  /\ log' = Append(log, [call |-> "execute", window |-> windowIdx])
  /\ IF faults.modelFailsAt = <<windowIdx>>
     THEN /\ dpc' = "loop"
          /\ windowIdx' = windowIdx + 1
          /\ UNCHANGED <<error, calculatedFrames, chunk>>
     ELSE LET results == evaluateSingleFrame(windowIdx)
              calculatedFramesTmp == unwrapOutput(results["frames"]).count
          IN /\ error' = IF calculatedFrames < nOutputFramesOriginal
                           /\ sliceThrows(results, calculatedFrames,
                                          nOutputFramesOriginal)
                        THEN <<"slice">> ELSE error
             /\ IF calculatedFrames >= nOutputFramesOriginal
                THEN \* continue
                     /\ windowIdx' = windowIdx + 1
                     /\ dpc' = "loop"
                     /\ UNCHANGED <<calculatedFrames, chunk>>
                ELSE IF sliceThrows(results, calculatedFrames,
                                    nOutputFramesOriginal)
                THEN /\ dpc' = "failed"
                     /\ UNCHANGED <<calculatedFrames, windowIdx, chunk>>
                ELSE /\ chunk' = <<chunkToOutput(results, calculatedFrames,
                                                 nOutputFramesOriginal)>>
                     /\ calculatedFrames' = calculatedFrames + calculatedFramesTmp
                     /\ dpc' = "deliver"
                     /\ UNCHANGED windowIdx
  /\ UNCHANGED <<buffer, nWindows, nOutputFramesOriginal, faults, delivered, pvars, fvars>>

\* a driver that skips a window only once the rows it has calculated exceed
\* the original length
ExecuteModel_ContinueLate ==
  /\ dpc = "execute"
  /\ log' = Append(log, [call |-> "execute", window |-> windowIdx])
  /\ IF faults.modelFailsAt = <<windowIdx>>
     THEN /\ dpc' = "failed"
          /\ error' = <<"model">>
          /\ UNCHANGED <<calculatedFrames, windowIdx, chunk>>
     ELSE LET results == evaluateSingleFrame(windowIdx)
              calculatedFramesTmp == unwrapOutput(results["frames"]).count
          IN /\ error' = IF calculatedFrames <= nOutputFramesOriginal
                           /\ sliceThrows(results, calculatedFrames,
                                          nOutputFramesOriginal)
                        THEN <<"slice">> ELSE error
             /\ IF calculatedFrames > nOutputFramesOriginal
                THEN \* continue
                     /\ windowIdx' = windowIdx + 1
                     /\ dpc' = "loop"
                     /\ UNCHANGED <<calculatedFrames, chunk>>
                ELSE IF sliceThrows(results, calculatedFrames,
                                    nOutputFramesOriginal)
                THEN /\ dpc' = "failed"
                     /\ UNCHANGED <<calculatedFrames, windowIdx, chunk>>
                ELSE /\ chunk' = <<chunkToOutput(results, calculatedFrames,
                                                 nOutputFramesOriginal)>>
                     /\ calculatedFrames' = calculatedFrames + calculatedFramesTmp
                     /\ dpc' = "deliver"
                     /\ UNCHANGED windowIdx
  /\ UNCHANGED <<buffer, nWindows, nOutputFramesOriginal, faults, delivered, pvars, fvars>>

\* await evaluateSingleFrame, unwrapOutput, and the trim to the original
\* length, up to the call of onComplete
ExecuteModel ==
  /\ dpc = "execute"
  /\ log' = Append(log, [call |-> "execute", window |-> windowIdx])
  /\ IF faults.modelFailsAt = <<windowIdx>>
     THEN /\ dpc' = "failed"
          /\ error' = <<"model">>
          /\ UNCHANGED <<calculatedFrames, windowIdx, chunk>>
     ELSE LET results == evaluateSingleFrame(windowIdx)
              calculatedFramesTmp == unwrapOutput(results["frames"]).count
          IN /\ error' = IF calculatedFrames < nOutputFramesOriginal
                           /\ sliceThrows(results, calculatedFrames,
                                          nOutputFramesOriginal)
                        THEN <<"slice">> ELSE error
             /\ IF calculatedFrames >= nOutputFramesOriginal
                THEN \* continue
                     /\ windowIdx' = windowIdx + 1
                     /\ dpc' = "loop"
                     /\ UNCHANGED <<calculatedFrames, chunk>>
                ELSE IF sliceThrows(results, calculatedFrames,
                                    nOutputFramesOriginal)
                THEN /\ dpc' = "failed"
                     /\ UNCHANGED <<calculatedFrames, windowIdx, chunk>>
                ELSE /\ chunk' = <<chunkToOutput(results, calculatedFrames,
                                                 nOutputFramesOriginal)>>
                     /\ calculatedFrames' = calculatedFrames + calculatedFramesTmp
                     /\ dpc' = "deliver"
                     /\ UNCHANGED windowIdx
  /\ UNCHANGED <<buffer, nWindows, nOutputFramesOriginal, faults, delivered, pvars, fvars>>

\* a delivery after which the loop runs the same window again
Deliver_SameWindow ==
  /\ dpc = "deliver"
  /\ log' = Append(log, [call |-> "sink", window |-> windowIdx])
  /\ delivered' = Append(delivered, chunk[1])
  /\ chunk' = NULL
  /\ windowIdx' = windowIdx
  /\ dpc' = "loop"
  /\ UNCHANGED <<buffer, error, nWindows, nOutputFramesOriginal,
                 calculatedFrames, faults, pvars, fvars>>

\* onComplete(await frames.array(), await onsets.array(), await contours.array())
\* and the ++i of the for loop
Deliver ==
  /\ dpc = "deliver"
  /\ log' = Append(log, [call |-> "sink", window |-> windowIdx])
  /\ delivered' = Append(delivered, chunk[1])
  /\ chunk' = NULL
  /\ windowIdx' = windowIdx + 1
  /\ dpc' = "loop"
  /\ UNCHANGED <<buffer, error, nWindows, nOutputFramesOriginal,
                 calculatedFrames, faults, pvars, fvars>>

\* after the for loop: percentCallback(1.0)
Finish ==
  /\ dpc = "loop"
  /\ windowIdx >= nWindows
  /\ percentCallback(<<1, 1>>, "done")
  /\ UNCHANGED <<buffer, nWindows, nOutputFramesOriginal, calculatedFrames,
                 windowIdx, chunk, faults, delivered, pvars, fvars>>

(***************************************************************************)
(* The calls of evaluateModel the model explores.                          *)
(***************************************************************************)
\* sample counts: no audio, less than a frame, one frame, the longest audio
\* of one window and of two, the shortest of two and of three, audio that
\* ends with a full chunk, audio that ends a few rows into a chunk
AudioLengths == {0, 100, 257, 32324, 32325, 36409, 36665, 68488, 68489, 72817, 80000}

Buffers ==
  [kind : {"Float32Array"}, sampleRate : {NULL}, numberOfChannels : {NULL},
   length : AudioLengths]
  \cup
  [kind : {"AudioBuffer"}, sampleRate : {<<AUDIO_SAMPLE_RATE>>, <<44100>>},
   numberOfChannels : {<<NUM_CHANNELS>>, <<2>>}, length : AudioLengths]

\* the most windows an audio of AudioLengths has
MaxWindows == 3

\* what the collaborators do: the window at which the Model fails and the
\* call at which the progress callback throws, if any
Faults ==
  [modelFailsAt : {NULL} \cup {<<w>> : w \in 0 .. MaxWindows - 1},
   progressThrowsAt : {NULL} \cup {<<n>> : n \in 0 .. MaxWindows},
   rows : {[name \in OutputNames |-> ANNOT_N_FRAMES]}]

\* a Model whose outputs may differ in their number of rows, with
\* collaborators that do not fail
FaultsShapes ==
  [modelFailsAt : {NULL},
   progressThrowsAt : {NULL},
   rows : [OutputNames -> {ANNOT_N_FRAMES, ANNOT_N_FRAMES - 2}]]

\* none of the other functions is called
FunctionsIdle ==
  /\ call = NULL
  /\ returned = NULL

\* outputToNotesPoly is not running
DecoderIdle ==
  /\ frames = <<>>
  /\ onsets = <<>>
  /\ opts = NULL
  /\ pc = "idle"
  /\ noteStarts = <<>>
  /\ freqIdxs = <<>>
  /\ idx = 1
  /\ remainingEnergy = <<>>
  /\ noteEvents = <<>>
  /\ nIterations = 0

InitDriver ==
  /\ buffer \in Buffers
  /\ faults \in Faults
  /\ dpc = "start"
  /\ error = NULL
  /\ nWindows = 0
  /\ nOutputFramesOriginal = 0
  /\ calculatedFrames = 0
  /\ windowIdx = 0
  /\ chunk = NULL
  /\ log = <<>>
  /\ delivered = <<>>
  /\ DecoderIdle
  /\ FunctionsIdle

\* calls of evaluateModel with a Model whose outputs may differ in shape
InitShapes ==
  /\ buffer \in {b \in Buffers : b.kind = "Float32Array"}
  /\ faults \in FaultsShapes
  /\ dpc = "start"
  /\ error = NULL
  /\ nWindows = 0
  /\ nOutputFramesOriginal = 0
  /\ calculatedFrames = 0
  /\ windowIdx = 0
  /\ chunk = NULL
  /\ log = <<>>
  /\ delivered = <<>>
  /\ DecoderIdle
  /\ FunctionsIdle

NextDriver ==
  \/ Validate
  \/ ReportProgress
  \/ ExecuteModel
  \/ Deliver
  \/ Finish

SpecDriver == InitDriver /\ [][NextDriver]_vars

SpecShapes == InitShapes /\ [][NextDriver]_vars

Init ==
  /\ \E sh \in Shapes :
       /\ frames \in [0 .. sh[1] - 1 -> InputRows(sh[2], Levels)]
       /\ onsets \in [0 .. sh[1] - 1 -> InputRows(sh[2], OnsetLevels)]
  /\ opts \in Options
  /\ pc = "start"
  /\ noteStarts = <<>>
  /\ freqIdxs = <<>>
  /\ idx = 1
  /\ remainingEnergy = <<>>
  /\ noteEvents = <<>>
  /\ nIterations = 0
  /\ DriverIdle
  /\ FunctionsIdle

Next ==
  \/ Prepare
  \/ OnsetNote
  \/ OnsetsDone
  \/ MelodiaIteration
  \/ MelodiaDone

Spec == Init /\ [][Next]_vars

(***************************************************************************)
(* Properties of outputToNotesPoly.                                        *)
(***************************************************************************)
Notes == {noteEvents[n] : n \in DOMAIN noteEvents}
\* the frames a note occupies
framesOf(note) == note.startFrame .. (note.startFrame + note.durationFrames - 1)

\* C1: every note of outputToNotesPoly, of the onset pass or of the melodia
\* pass, is longer than minNoteLen and has a pitch of the 88 keys, 21 to 108
C1_NoteLengthAndPitch ==
  \A note \in Notes :
    /\ note.durationFrames > opts.minNoteLen
    /\ 21 <= note.pitchMidi /\ note.pitchMidi <= 108

\* C1: the call returned a note of the onset pass and a note of the melodia
\* pass, one of them as short as minNoteLen allows
C1_Witness ==
  /\ pc = "done"
  /\ Len(noteStarts) > 0 /\ nIterations > 0
  /\ Len(noteEvents) >= 2
  /\ \E note \in Notes : note.durationFrames = opts.minNoteLen + 1
  /\ \E n \in DOMAIN noteEvents : n > Len(noteStarts)

\* C2: every note of outputToNotesPoly on T >= 1 rows starts at a frame
\* >= 0 and ends at a frame <= T
C2_NoteInsideMatrix ==
  nRows(frames) >= 1 =>
    \A note \in Notes :
      /\ 0 <= note.startFrame
      /\ note.startFrame + note.durationFrames <= nRows(frames)

\* C2: the call returned a note that starts at frame 0 and a note that ends
\* at the last frame a note can end at
C2_Witness ==
  /\ pc = "done"
  /\ \E note \in Notes : note.startFrame = 0
  /\ \E note \in Notes :
       note.startFrame + note.durationFrames = nRows(frames) - 1
  /\ nIterations > 0

\* C3: with frameThresh > 0, no two notes of the returned list have the same
\* pitch and a frame in common
C3_NoSharedCell ==
  (pc = "done" /\ opts.frameThresh > 0) =>
    \A a, b \in DOMAIN noteEvents :
      (a # b /\ noteEvents[a].pitchMidi = noteEvents[b].pitchMidi)
        => framesOf(noteEvents[a]) \cap framesOf(noteEvents[b]) = {}

\* the number of cells of the 88 columns of m that are above thresh; the
\* columns that are not stored hold zero
aboveThreshold(m, thresh) ==
  Cardinality({cell \in Rows(m) \X Cols(m) : m[cell[1]][cell[2]] > thresh})
  + (IF 0 > thresh
     THEN nRows(m) * (ANNOTATIONS_N_SEMITONES - Cardinality(Cols(m)))
     ELSE 0)

\* a step is an iteration of the melodia loop
IsMelodiaIteration == nIterations' = nIterations + 1

\* C7 as stated: for every frameThresh, each iteration of the melodia loop
\* strictly reduces the number of remainingEnergy cells above the threshold
C7_EveryIterationReduces ==
  [][IsMelodiaIteration =>
       aboveThreshold(remainingEnergy', opts.frameThresh)
         < aboveThreshold(remainingEnergy, opts.frameThresh)]_vars

\* C7 as amended: for frameThresh >= 0, each iteration of the melodia loop
\* strictly reduces the number of remainingEnergy cells above the threshold,
\* and the loop has run at most as often as cells have left that number,
\* which is at most T * 88
C7_IterationReducesNonNegative ==
  /\ [][(IsMelodiaIteration /\ opts.frameThresh >= 0) =>
          aboveThreshold(remainingEnergy', opts.frameThresh)
            < aboveThreshold(remainingEnergy, opts.frameThresh)]_vars
  /\ []((pc \in {"melodia", "done"} /\ opts.frameThresh >= 0) =>
          /\ nIterations + aboveThreshold(remainingEnergy, opts.frameThresh)
               <= aboveThreshold(frames, opts.frameThresh)
          /\ nIterations <= nRows(frames) * 88)

\* C7: the melodia loop has ended after as many iterations as the matrix has
\* cells, with a threshold >= 0
C7_Witness ==
  /\ pc = "done"
  /\ opts.melodiaTrick /\ opts.frameThresh >= 0
  /\ nIterations = MaxCells
  /\ aboveThreshold(remainingEnergy, opts.frameThresh) = 0

(***************************************************************************)
(* Properties of evaluateModel.                                            *)
(***************************************************************************)
\* the rows of one output handed to the sink so far, in order
deliveredRows(name) ==
  Flatten([n \in DOMAIN delivered |-> rowsOf(delivered[n][name])])

\* the rows of one output of every window without their first 15 and last
\* 15, in window order
unwrappedRows(name, nWin) ==
  Flatten([w \in 1 .. nWin |->
             [n \in 1 .. ANNOT_N_FRAMES - 30 |-> <<name, w - 1, 15 + n - 1>>]])

\* the first n elements of s, or all of s if it has fewer
Take(s, n) == SubSeq(s, 1, Min(n, Len(s)))

IsPrefix(s, t) == Len(s) <= Len(t) /\ \A n \in DOMAIN s : s[n] = t[n]

\* C4: what the sink has received of each output is a prefix of the first
\* floor(L * 86 / 22050) rows of the outputs of all windows without their
\* first and last 15 rows, and all of them when evaluateModel is done
C4_DeliveredIsTrimmedOutput ==
  nWindows > 0 =>
    LET total == (buffer.length * 86) \div 22050
    IN \A name \in OutputNames :
         LET expected == Take(unwrappedRows(name, nWindows), total)
         IN /\ Len(expected) = total
            /\ IsPrefix(deliveredRows(name), expected)
            /\ (dpc = "done" => deliveredRows(name) = expected)

\* C4: evaluateModel is done on three windows, the second chunk was cut and
\* the third window gave no chunk
C4_Witness ==
  /\ dpc = "done"
  /\ nWindows = 3
  /\ Len(delivered) = 2
  /\ delivered[2]["frames"].count < ANNOT_N_FRAMES - 30
  /\ delivered[2]["frames"].count > 0

\* C5: the sink is called for increasing windows, and when it is called
\* for a window the Model has not been executed for a later window; a chunk
\* waits for the sink only while the driver is about to call it
C5_SinkInWindowOrder ==
  /\ \A p, q \in DOMAIN log :
       (p < q /\ log[q].call = "sink") =>
         /\ log[p].call = "sink" => log[p].window < log[q].window
         /\ log[p].call = "execute" => log[p].window <= log[q].window
  /\ \A q \in DOMAIN log :
       log[q].call = "sink" =>
         \E p \in 1 .. q - 1 : log[p] = [call |-> "execute", window |-> log[q].window]
  /\ chunk # NULL => dpc = "deliver"

\* C5: the sink has been called for three windows
C5_Witness ==
  Cardinality({q \in DOMAIN log : log[q].call = "sink"}) = 3

\* the values the progress callback has received, in order
progressValues ==
  LET IsProgress(e) == e.call = "progress"
      calls == SelectSeq(log, IsProgress)
  IN [n \in DOMAIN calls |-> calls[n].percent]

\* a / b < c / d
FractionLess(x, y) == x[1] * y[2] < y[1] * x[2]
\* a / b = c / d
FractionEqual(x, y) == x[1] * y[2] = y[1] * x[2]

\* C6: when evaluateModel is done on W windows the progress callback has
\* received 0/W, 1/W, ..., (W-1)/W and then 1.0, a strictly increasing
\* sequence; i/W came right before the Model was executed for window i,
\* and 1.0 came once, as the last call of all
C6_ProgressSequence ==
  dpc = "done" =>
    LET W == nWindows
        P == progressValues
    IN /\ Len(P) = W + 1
       /\ \A n \in 1 .. W : FractionEqual(P[n], <<n - 1, W>>)
       /\ FractionEqual(P[W + 1], <<1, 1>>)
       /\ \A n \in 1 .. W : FractionLess(P[n], P[n + 1])
       /\ \A q \in DOMAIN log :
            log[q].call = "execute" =>
              /\ q > 1
              /\ log[q - 1].call = "progress"
              /\ FractionEqual(log[q - 1].percent, <<log[q].window, W>>)
       /\ log[Len(log)].call = "progress"
       /\ FractionEqual(log[Len(log)].percent, <<1, 1>>)

\* C6: evaluateModel is done on three windows that all gave a chunk
C6_Witness ==
  /\ dpc = "done"
  /\ nWindows = 3
  /\ Len(delivered) = 3

\* the buffer is an AudioBuffer that is not 22050 Hz mono
WrongFormat ==
  /\ buffer.kind = "AudioBuffer"
  /\ buffer.sampleRate # <<22050>> \/ buffer.numberOfChannels # <<1>>

ModelFailed ==
  /\ faults.modelFailsAt # NULL
  /\ \E q \in DOMAIN log :
       log[q] = [call |-> "execute", window |-> faults.modelFailsAt[1]]

\* C9: once the Model has failed at window i, evaluateModel has failed with
\* the error of the Model, the execution of window i is the last call made
\* to a collaborator, the sink was not called for window i or a later one,
\* and the chunks of the windows before i have been delivered as they are
C9_ModelFailureAborts ==
  ModelFailed =>
    LET w == faults.modelFailsAt[1]
        total == (buffer.length * 86) \div 22050
    IN /\ dpc = "failed"
       /\ error = <<"model">>
       /\ log[Len(log)] = [call |-> "execute", window |-> w]
       /\ \A q \in DOMAIN log : log[q].call = "sink" => log[q].window < w
       /\ \A name \in OutputNames :
            deliveredRows(name) =
              Take(unwrappedRows(name, w), total)

\* C9: the Model has failed at the third window, after two chunks
C9_Witness ==
  /\ ModelFailed
  /\ dpc = "failed"
  /\ faults.modelFailsAt = <<2>>
  /\ Len(delivered) = 2

\* the progress callback has thrown
ProgressCallbackThrew ==
  /\ faults.progressThrowsAt # NULL
  /\ progressCalls > faults.progressThrowsAt[1]

\* C10: a progress callback that throws does not make evaluateModel fail
C10_ProgressFailureIsolated ==
  ProgressCallbackThrew => dpc # "failed"

(***************************************************************************)
(* Empty input.                                                            *)
(***************************************************************************)
\* the booleans and the frequency bounds of the call are the defaults
DefaultSwitches ==
  /\ opts.inferOnsets
  /\ opts.melodiaTrick
  /\ opts.maxFreq = NULL
  /\ opts.minFreq = NULL

\* C11: outputToNotesPoly called with the defaults on the zero-row frames and
\* onsets matrices of an empty audio returns an empty list and raises no error
C11_EmptyAudioDecodes ==
  (nRows(frames) = 0 /\ DefaultSwitches /\ pc # "start")
    => (pc = "done" /\ noteEvents = <<>>)

(***************************************************************************)
(* Calls of the other functions of toMidi and of BasicPitch: call holds    *)
(* the function and its arguments, returned what the call returned.        *)
(* A JavaScript array is a function from the indices 0 .. length - 1.      *)
(***************************************************************************)
\* the arrays argMax is called with have at most MaxLen elements
MaxLen == 4

\* the arrays of at most n elements of vals
Arrays(vals, n) == UNION {[0 .. len - 1 -> vals] : len \in 0 .. n}

\* arr.map(row => argMax(row) as number)
argMaxAxis1(arr) == [r \in DOMAIN arr |-> argMax(arr[r])[1]]

\* fn is called and has not returned
Called(fn) == call # NULL /\ call[1].fn = fn /\ returned = NULL

\* testables.argMax(arr)
ArgMaxCall ==
  /\ Called("argMax")
  /\ returned' = <<argMax(call[1].arr)>>
  /\ UNCHANGED <<call, pvars, dvars>>

(***************************************************************************)
(* addPitchBendsToNoteEvents.  A contour row has N_FREQ_BINS_CONTOURS      *)
(* columns; it is a function from its stored columns to values, and the    *)
(* columns that are not stored are zero.                                    *)
(***************************************************************************)
CONTOURS_BINS_PER_SEMITONE == 3
N_FREQ_BINS_CONTOURS == ANNOTATIONS_N_SEMITONES * CONTOURS_BINS_PER_SEMITONE
\* the default of the parameter nBinsTolerance
nBinsTolerance == 25

\* Math.round of a number given in millionths
Round(micro) == (micro + 500000) \div 1000000

\* arr.slice(from, to) of an array, for 0 <= from
slice(arr, from, to) ==
  [n \in 0 .. (Min(to, Cardinality(DOMAIN arr)) - from - 1) |-> arr[from + n]]

\* exp(-(d * d) / (2 * 5 ** 2)) in units of 10^-9, for d = 0 .. 25
expOfSquare ==
  <<1000000000, 980198673, 923116346, 835270211, 726149037, 606530660,
    486752256, 375311099, 278037300, 197898699, 135335283, 88921617,
    56134763, 34047455, 19841095, 11108997, 5976023, 3088715, 1533811,
    731802, 335463, 147748, 62522, 25419, 9930, 3727>>

\* gaussian(M, std) for an odd M <= 51 and std = 5, in units of 10^-9:
\* exp(-1 * (n - (M - 1) / 2) ** 2 / (2 * std ** 2)) for n = 0 .. M - 1
gaussian(M, std) ==
  [n \in 0 .. M - 1 |->
     LET d == n - (M - 1) \div 2
     IN expOfSquare[(IF d < 0 THEN 0 - d ELSE d) + 1]]

\* a bin that counts semitones above the lowest key, not thirds of a semitone
midiPitchToContourBin_Semitones(pitchMidi) ==
  (pitchMidi - MIDI_OFFSET) * 1000000

\* midiPitchToContourBin in millionths of a bin.  midiToHz(p) / 27.5 is
\* 2 ** (4 + (p - 69) / 12), so the bin is 12 * 3 * (4 + (p - 69) / 12);
\* the doubles are within 10^-9 of it for every pitch 21 .. 108
midiPitchToContourBin(pitchMidi) ==
  (12 * CONTOURS_BINS_PER_SEMITONE * 4
     + CONTOURS_BINS_PER_SEMITONE * (pitchMidi - 69)) * 1000000

\* the contour rows of a note, one row too many
noteFrames_Inclusive(contours, note) ==
  slice(contours, note.startFrame, note.startFrame + note.durationFrames + 1)

\* contours.slice(note.startFrame, note.startFrame + note.durationFrames)
noteFrames(contours, note) ==
  slice(contours, note.startFrame, note.startFrame + note.durationFrames)

windowLength == nBinsTolerance * 2 + 1
freqGaussian == gaussian(windowLength, 5)

\* Math.floor(Math.round(midiPitchToContourBin(note.pitchMidi)))
freqIdxOf(note) == Round(midiPitchToContourBin(note.pitchMidi))

freqStartIdx(freqIdx) == Max(freqIdx - nBinsTolerance, 0)

freqEndIdx(freqIdx) == Min(N_FREQ_BINS_CONTOURS, freqIdx + nBinsTolerance + 1)

\* the first windowLength weights that fit the window, whichever side the
\* window is cut on
freqGuassianSubMatrix_FromStart(freqIdx) ==
  slice(freqGaussian, 0, freqEndIdx(freqIdx) - freqStartIdx(freqIdx))

freqGuassianSubMatrix(freqIdx) ==
  slice(freqGaussian, Max(0, nBinsTolerance - freqIdx),
        windowLength
          - Max(0, freqIdx - (N_FREQ_BINS_CONTOURS - nBinsTolerance - 1)))

\* the contour rows of the note, cut to the window and weighted
pitchBendSubmatrix(contours, note) ==
  LET freqIdx == freqIdxOf(note)
      frameRows == noteFrames(contours, note)
  IN [r \in DOMAIN frameRows |->
        [col \in 0 .. (freqEndIdx(freqIdx) - freqStartIdx(freqIdx) - 1) |->
           (IF freqStartIdx(freqIdx) + col \in DOMAIN frameRows[r]
            THEN frameRows[r][freqStartIdx(freqIdx) + col] ELSE 0)
             * freqGuassianSubMatrix(freqIdx)[col]]]

\* the callback of notes.map: the note with its pitch bends
withPitchBends(contours, note) ==
  LET freqIdx == freqIdxOf(note)
      pbShift == nBinsTolerance - Max(0, nBinsTolerance - freqIdx)
      argMaxes == argMaxAxis1(pitchBendSubmatrix(contours, note))
      bends == [r \in DOMAIN argMaxes |-> argMaxes[r] - pbShift]
  IN [f \in DOMAIN note \cup {"pitchBends"} |->
        IF f = "pitchBends" THEN bends ELSE note[f]]

addPitchBendsToNoteEvents(contours, notes) ==
  [n \in DOMAIN notes |-> withPitchBends(contours, notes[n])]

AddPitchBendsCall ==
  /\ Called("addPitchBendsToNoteEvents")
  /\ returned' = <<addPitchBendsToNoteEvents(call[1].contours, call[1].notes)>>
  /\ UNCHANGED <<call, pvars, dvars>>

\* the calls have at most MaxNotes notes
MaxNotes == 1
\* the numbers of rows of the contour matrices
ContourLengths == {0, 1, 2}
\* the columns of a contour row that may be non-zero: the ends of the row,
\* around the bin of pitch 60 the ends of its window and its centre, and the
\* low end of the window of the highest pitch
ContourColumns == {0, 92, 116, 117, 142, 236, N_FREQ_BINS_CONTOURS - 1}
\* the pitches of the notes: the ends of the range, a pitch in the middle,
\* and the last pitch whose window is cut by the low end of the contour row
\* and the first whose window is cut by the high end
NotePitches == {MIDI_OFFSET, 29, 60, 101, MIDI_OFFSET + MAX_FREQ_IDX}

\* contour rows: no cell or one cell that is not zero, two cells next to
\* each other at the centre of the window of pitch 60, and two equal cells at
\* the two ends of that window
ContourRows ==
  {row \in [ContourColumns -> {0, 1}] :
     Cardinality({c \in ContourColumns : row[c] # 0}) <= 1}
  \cup {[c \in ContourColumns |-> IF c = 116 THEN v ELSE IF c = 117 THEN 1 ELSE 0] :
          v \in {1, 2}}
  \cup {[c \in ContourColumns |-> IF c \in {92, 142} THEN 1 ELSE 0]}

\* the notes that lie within len contour rows
NoteEvents(len) ==
  {note \in [startFrame : 0 .. len, durationFrames : 0 .. len,
             pitchMidi : NotePitches, amplitude : {1}] :
     note.startFrame + note.durationFrames <= len}

AddPitchBendsCalls ==
  UNION {[fn : {"addPitchBendsToNoteEvents"},
          contours : [0 .. len - 1 -> ContourRows],
          notes : Arrays(NoteEvents(len), MaxNotes)] : len \in ContourLengths}

(***************************************************************************)
(* Calls of constrainFrequency: returned holds the two matrices as the     *)
(* call leaves them.                                                       *)
(***************************************************************************)
ConstrainFrequencyCall ==
  /\ Called("constrainFrequency")
  /\ returned' =
       <<[onsets |-> constrainFrequency(call[1].onsets, call[1].maxFreq,
                                        call[1].minFreq),
          frames |-> constrainFrequency(call[1].frames, call[1].maxFreq,
                                        call[1].minFreq)]>>
  /\ UNCHANGED <<call, pvars, dvars>>

\* the bounds: none, and a frequency below the lowest key, one between two
\* keys, the frequency of a key, and one just below the highest key
MaxFreqs == {NULL, <<20>>, <<440>>, <<4186>>}
MinFreqs == {NULL, <<20>>, <<30>>, <<440>>}
\* the columns of the matrices of a call that may be non-zero
ConstrainColumns == {1, MAX_FREQ_IDX - 1, MAX_FREQ_IDX}
\* the numbers of rows of the matrices of a call
ConstrainLengths == {1, 2}

ConstrainFrequencyCalls ==
  UNION {[fn : {"constrainFrequency"},
          onsets : [0 .. len - 1 -> {[c \in ConstrainColumns |-> 0],
                                     [c \in ConstrainColumns |-> 2]}],
          frames : [0 .. len - 1 -> [ConstrainColumns -> {0, 2}]],
          maxFreq : MaxFreqs,
          minFreq : MinFreqs] : len \in ConstrainLengths}

(***************************************************************************)
(* BasicPitch.adjustNoteStart.  Times are whole seconds here; pitchBends   *)
(* is null when the note has none.                                         *)
(***************************************************************************)
adjustNoteStart(notes, offsetSeconds) ==
  [n \in DOMAIN notes |->
     [startTimeSeconds |-> notes[n].startTimeSeconds + offsetSeconds,
      durationSeconds |-> notes[n].durationSeconds,
      pitch_midi |-> notes[n].pitchMidi,
      amplitude |-> notes[n].amplitude,
      pitchBends |-> notes[n].pitchBends]]

AdjustNoteStartCall ==
  /\ Called("adjustNoteStart")
  /\ returned' = <<adjustNoteStart(call[1].notes, call[1].offsetSeconds)>>
  /\ UNCHANGED <<call, pvars, dvars>>

\* the notes adjustNoteStart is called with
NoteEventTimes ==
  [startTimeSeconds : {0, 1},
   durationSeconds : {1, 2},
   pitchMidi : {MIDI_OFFSET, 60},
   amplitude : {1},
   pitchBends : {NULL, <<[r \in 0 .. 1 |-> r - 1]>>}]

AdjustNoteStartCalls ==
  [fn : {"adjustNoteStart"},
   notes : Arrays(NoteEventTimes, MaxNotes),
   offsetSeconds : {0 - 2, 0, 3}]

ArgMaxCalls == [fn : {"argMax"}, arr : Arrays(Levels, MaxLen)]

(***************************************************************************)
(* Calls of getInferredOnsets: returned holds the numerators of the result *)
(* and their denominator.                                                  *)
(***************************************************************************)
GetInferredOnsetsCall ==
  /\ Called("getInferredOnsets")
  /\ returned' = <<getInferredOnsets(call[1].onsets, call[1].frames)>>
  /\ UNCHANGED <<call, pvars, dvars>>

\* the numbers of rows of the matrices of a call
InferLengths == {1, 2, 3}

\* matrices of one to three rows that are zero outside column 0
GetInferredOnsetsCalls ==
  UNION {[fn : {"getInferredOnsets"},
          onsets : [0 .. len - 1 -> InputRows({0}, OnsetLevels)],
          frames : [0 .. len - 1 -> InputRows({0}, Levels)]] : len \in InferLengths}

(***************************************************************************)
(* Calls of argRelMax: returned holds whether the call threw and, if it    *)
(* did not, the list it returned.                                          *)
(***************************************************************************)
ArgRelMaxCall ==
  /\ Called("argRelMax")
  /\ returned' = IF nRows(call[1].array) = 0
                 THEN \* array[0].length: a TypeError
                      <<[threw |-> TRUE, value |-> <<>>]>>
                 ELSE <<[threw |-> FALSE,
                         value |-> argRelMax(call[1].array, call[1].order)]>>
  /\ UNCHANGED <<call, pvars, dvars>>

\* the numbers of rows of the matrices of a call
ArgRelMaxLengths == {0, 1, 2, 3}

\* matrices of two columns
ArgRelMaxCalls ==
  UNION {[fn : {"argRelMax"},
          array : [0 .. len - 1 -> [0 .. 1 -> Levels]],
          order : {1, 2}] : len \in ArgRelMaxLengths}

(***************************************************************************)
(* modelFrameToTime and noteFramesToTime.  Seconds are counted in units of *)
(* 1 / TimeUnit, in which FFT_HOP / AUDIO_SAMPLE_RATE, the quotient        *)
(* AUDIO_N_SAMPLES / FFT_HOP and the literal 0.0018 are whole numbers.     *)
(***************************************************************************)
TimeUnit == 220500000

\* (FFT_HOP / AUDIO_SAMPLE_RATE) * (ANNOT_N_FRAMES - AUDIO_N_SAMPLES / FFT_HOP)
\*   + 0.0018
WINDOW_OFFSET ==
  (ANNOT_N_FRAMES * FFT_HOP - AUDIO_N_SAMPLES) * (TimeUnit \div AUDIO_SAMPLE_RATE)
    + 18 * (TimeUnit \div 10000)

\* the time of a frame within its window of ANNOT_N_FRAMES frames
modelFrameToTime_InWindow(frame) ==
  (frame % ANNOT_N_FRAMES) * FFT_HOP * (TimeUnit \div AUDIO_SAMPLE_RATE)

modelFrameToTime(frame) ==
  frame * FFT_HOP * (TimeUnit \div AUDIO_SAMPLE_RATE)
    - WINDOW_OFFSET * (frame \div ANNOT_N_FRAMES)

noteFramesToTime(notes) ==
  [n \in DOMAIN notes |->
     [pitchMidi |-> notes[n].pitchMidi,
      amplitude |-> notes[n].amplitude,
      pitchBends |-> notes[n].pitchBends,
      startTimeSeconds |-> modelFrameToTime(notes[n].startFrame),
      durationSeconds |->
        modelFrameToTime(notes[n].startFrame + notes[n].durationFrames)
          - modelFrameToTime(notes[n].startFrame)]]

NoteFramesToTimeCall ==
  /\ Called("noteFramesToTime")
  /\ returned' = <<noteFramesToTime(call[1].notes)>>
  /\ UNCHANGED <<call, pvars, dvars>>

\* the start frames of the notes: the first and last frames of the first
\* three windows of ANNOT_N_FRAMES frames
StartFrames == {0, 1, ANNOT_N_FRAMES - 1, ANNOT_N_FRAMES,
                2 * ANNOT_N_FRAMES - 1, 2 * ANNOT_N_FRAMES}
\* the lengths of the notes: none, within a window or into the next, and a
\* whole window
DurationFrames == {0, 1, 2, ANNOT_N_FRAMES}
\* the numbers of notes of a call
TimeLengths == {0, 1, 2}

\* the notes noteFramesToTime is called with
TimedNoteEvents ==
  [startFrame : StartFrames,
   durationFrames : DurationFrames,
   pitchMidi : {60},
   amplitude : {1},
   pitchBends : {NULL, <<[r \in 0 .. 0 |-> 1]>>}]

NoteFramesToTimeCalls ==
  UNION {[fn : {"noteFramesToTime"},
          notes : [0 .. len - 1 -> TimedNoteEvents]] : len \in TimeLengths}

InitCalls ==
  /\ call \in {<<c>> : c \in ArgMaxCalls \cup AddPitchBendsCalls
                            \cup ConstrainFrequencyCalls
                            \cup AdjustNoteStartCalls
                            \cup GetInferredOnsetsCalls
                            \cup ArgRelMaxCalls
                            \cup NoteFramesToTimeCalls}
  /\ returned = NULL
  /\ DecoderIdle
  /\ DriverIdle

NextCalls ==
  \/ ArgMaxCall
  \/ AddPitchBendsCall
  \/ ConstrainFrequencyCall
  \/ AdjustNoteStartCall
  \/ GetInferredOnsetsCall
  \/ ArgRelMaxCall
  \/ NoteFramesToTimeCall

SpecCalls == InitCalls /\ [][NextCalls]_vars

(***************************************************************************)
(* The calls of outputToNotesPoly with frequency bounds.                   *)
(***************************************************************************)
\* midiToHz(midi) in thousandths of a Hz, 440 * 2 ** ((midi - 69) / 12)
\* rounded to the nearest thousandth, for the pitches of FreqColumnSets
midiToHz(midi) ==
  CASE midi = 21  ->   27500
    [] midi = 22  ->   29135
    [] midi = 107 -> 3951066
    [] midi = 108 -> 4186009

\* the column sets that may be non-zero: the second key, the key below the
\* highest
FreqColumnSets == {{1}, {MAX_FREQ_IDX - 1}}
\* the numbers of rows of the inputs
FreqLengths == {1, 2, 3}

FreqOptions ==
  [onsetThresh : {1},
   frameThresh : {0, 1},
   minNoteLen : {0},
   inferOnsets : BOOLEAN,
   maxFreq : MaxFreqs,
   minFreq : MinFreqs,
   melodiaTrick : BOOLEAN,
   energyTolerance : {1}]

InitFreq ==
  /\ \E len \in FreqLengths, active \in FreqColumnSets :
       /\ frames \in [0 .. len - 1 -> InputRows(active, OnsetLevels)]
       /\ onsets \in [0 .. len - 1 -> InputRows(active, OnsetLevels)]
  /\ opts \in FreqOptions
  /\ pc = "start"
  /\ noteStarts = <<>>
  /\ freqIdxs = <<>>
  /\ idx = 1
  /\ remainingEnergy = <<>>
  /\ noteEvents = <<>>
  /\ nIterations = 0
  /\ DriverIdle
  /\ FunctionsIdle

SpecFreq == InitFreq /\ [][Next]_vars

(***************************************************************************)
(* Properties of the function calls.                                       *)
(***************************************************************************)
\* the call of fn has returned
Returned(fn) == call # NULL /\ call[1].fn = fn /\ returned # NULL

\* index n holds a maximum of arr and no lower index does
LowestMaximum(arr, n) ==
  /\ n \in DOMAIN arr
  /\ \A m \in DOMAIN arr : arr[m] <= arr[n]
  /\ \A m \in DOMAIN arr : m < n => arr[m] < arr[n]

\* C13: argMax returns null for an empty array and otherwise the lowest
\* index that holds the maximum
C13_ArgMaxLowestIndex ==
  Returned("argMax") =>
    IF DOMAIN call[1].arr = {} THEN returned[1] = NULL
    ELSE returned[1] # NULL /\ LowestMaximum(call[1].arr, returned[1][1])

\* C12: every note addPitchBendsToNoteEvents returns has one pitch bend per
\* frame of the note, each an integer from -25 to 25, and the fields of the
\* input note unchanged
C12_PitchBendsPerFrame ==
  Returned("addPitchBendsToNoteEvents") =>
    /\ DOMAIN returned[1] = DOMAIN call[1].notes
    /\ \A n \in DOMAIN call[1].notes :
         LET note == call[1].notes[n]
             out == returned[1][n]
         IN /\ DOMAIN out.pitchBends = 0 .. note.durationFrames - 1
            /\ \A r \in DOMAIN out.pitchBends :
                 out.pitchBends[r] \in (0 - nBinsTolerance) .. nBinsTolerance
            /\ \A f \in DOMAIN note : out[f] = note[f]

\* a note of two frames near the top of the range got a bend below the
\* centre of its window on one frame and the highest bend its cut window
\* allows on the other
C12_Witness ==
  /\ Returned("addPitchBendsToNoteEvents")
  /\ \E n \in DOMAIN returned[1] :
       /\ returned[1][n].pitchMidi = MIDI_OFFSET + MAX_FREQ_IDX
       /\ returned[1][n].durationFrames = 2
       /\ returned[1][n].pitchBends[0] < 0
       /\ returned[1][n].pitchBends[1] = 2

\* the matrix the specification of constrainFrequency describes: zero in
\* the columns from round(hzToMidi(maxFreq)) - 21 on and in the columns
\* below round(hzToMidi(minFreq)) - 21, and m everywhere else
ConstrainedByRounding(m, maxFreq, minFreq) ==
  [r \in DOMAIN m |-> [c \in DOMAIN m[r] |->
     IF \/ maxFreq # NULL /\ c >= Round(hzToMidi(maxFreq[1])) - MIDI_OFFSET
        \/ minFreq # NULL /\ c < Round(hzToMidi(minFreq[1])) - MIDI_OFFSET
     THEN 0 ELSE m[r][c]]]

\* C15: constrainFrequency zeroes exactly the columns from
\* round(hzToMidi(maxFreq)) - 21 on and the columns below
\* round(hzToMidi(minFreq)) - 21, in both matrices
C15_ZeroesRoundedColumns ==
  Returned("constrainFrequency") =>
    \A name \in {"onsets", "frames"} :
       returned[1][name] =
         ConstrainedByRounding(call[1][name], call[1].maxFreq, call[1].minFreq)

\* C18: constrainFrequency applied again with the same bounds leaves both
\* matrices as the first application left them
C18_ConstrainIdempotent ==
  Returned("constrainFrequency") =>
    \A name \in {"onsets", "frames"} :
       constrainFrequency(returned[1][name], call[1].maxFreq, call[1].minFreq)
         = returned[1][name]

\* a call with both bounds that zeroed cells of both matrices and left
\* other cells of both non-zero
C18_Witness ==
  /\ Returned("constrainFrequency")
  /\ call[1].maxFreq # NULL
  /\ call[1].minFreq # NULL
  /\ \A name \in {"onsets", "frames"} :
       /\ returned[1][name] # call[1][name]
       /\ \E r \in DOMAIN returned[1][name] :
            \E c \in DOMAIN returned[1][name][r] : returned[1][name][r][c] # 0

(***************************************************************************)
(* Properties of outputToNotesPoly with frequency bounds.                  *)
(***************************************************************************)
NullBounds == opts # NULL /\ opts.maxFreq = NULL /\ opts.minFreq = NULL

\* C14: with maxFreq and minFreq null no step of outputToNotesPoly changes
\* a cell of the caller's frames or onsets
C14_InputsNotMutated ==
  [][NullBounds => (frames' = frames /\ onsets' = onsets)]_vars

\* a call without bounds that inferred onsets from the frames, found notes
\* in both passes and zeroed their energy in remainingEnergy
C14_Witness ==
  /\ NullBounds
  /\ opts.inferOnsets
  /\ opts.melodiaTrick
  /\ pc = "done"
  /\ Len(noteEvents) > 0
  /\ nIterations > 0
  /\ globalMax(getInferredOnsets(onsets, frames).num) > globalMax(onsets)
  /\ remainingEnergy # frames

\* C16: no note is higher than maxFreq and none is lower than minFreq
C16_NotesWithinBounds ==
  \A note \in Notes :
     /\ opts.maxFreq # NULL => midiToHz(note.pitchMidi) <= opts.maxFreq[1] * 1000
     /\ opts.minFreq # NULL => midiToHz(note.pitchMidi) >= opts.minFreq[1] * 1000

(***************************************************************************)
(* The melodia pass on a single run.                                       *)
(***************************************************************************)
\* the rows of column c of frames that are above frameThresh
runRows(c) == {r \in Rows(frames) : Cell(frames, r, c) > opts.frameThresh}

\* frames is zero outside column c, and column c is above frameThresh on
\* one contiguous run of rows that is longer than minNoteLen
SingleRun(c) ==
  /\ \A r \in Rows(frames) : \A d \in Cols(frames) :
       d # c => frames[r][d] = 0
  /\ runRows(c) # {}
  /\ \A r, s \in runRows(c) : \A t \in r .. s : t \in runRows(c)
  /\ Cardinality(runRows(c)) > opts.minNoteLen

\* C17: without onset candidates the melodia pass returns a single run of
\* one column as exactly one note, which covers the rows of the run
C17_RunIsOneNote ==
  \A c \in 0 .. MAX_FREQ_IDX :
    ( /\ pc \in {"done", "error"}
      /\ nRows(frames) > 0
      /\ opts.melodiaTrick
      /\ ~opts.inferOnsets
      /\ \A r \in Rows(onsets) : \A d \in Cols(onsets) : onsets[r][d] = 0
      /\ SingleRun(c) )
    => /\ pc = "done"
       /\ Len(noteEvents) = 1
       /\ noteEvents[1].pitchMidi = c + MIDI_OFFSET
       /\ framesOf(noteEvents[1]) = runRows(c)

(***************************************************************************)
(* Properties of evaluateModel with a Model whose outputs differ in shape. *)
(***************************************************************************)
\* the outputs of the Model do not all have the same number of rows
RowsMismatch ==
  faults # NULL /\ \E a, b \in OutputNames : faults.rows[a] # faults.rows[b]

\* C19: when the outputs the Model returned for a window differ in their
\* number of rows, evaluateModel fails and the window's chunk does not reach
\* the sink
C19_ShapeMismatchIsFatal ==
  (RowsMismatch /\ \E n \in DOMAIN log : log[n].call = "execute")
    => /\ dpc = "failed"
       /\ \A n \in DOMAIN log : log[n].call # "sink"

\* C20: adjustNoteStart returns one note per input note, in the same
\* order, with offsetSeconds added to startTimeSeconds and the fields
\* durationSeconds, pitchMidi, amplitude and pitchBends of the input
C20_AdjustKeepsFields ==
  Returned("adjustNoteStart") =>
    /\ DOMAIN returned[1] = DOMAIN call[1].notes
    /\ \A n \in DOMAIN call[1].notes :
         LET note == call[1].notes[n]
             out == returned[1][n]
         IN /\ out.startTimeSeconds = note.startTimeSeconds + call[1].offsetSeconds
            /\ \A f \in {"durationSeconds", "pitchMidi", "amplitude", "pitchBends"} :
                 f \in DOMAIN out /\ out[f] = note[f]

(***************************************************************************)
(* The onset pass.                                                         *)
(***************************************************************************)
\* a step is the callback of noteStarts.map for one onset candidate
IsOnsetStep == pc = "onsets" /\ idx' = idx + 1

\* rows from .. to of column f of re hold tol consecutive cells below thresh
hasRunBelow(re, f, from, to, thresh, tol) ==
  \E a \in from .. (to - tol + 1) :
     \A r \in a .. (a + tol - 1) : Cell(re, r, f) < thresh

\* C21: for an onset (s, f) with s < T - 1 the end index e of the onset pass
\* is in s + 1 .. T - 1, rows s + 1 .. e - 1 of column f of remainingEnergy
\* hold no run of energyTolerance cells below frameThresh, and e = s + 1 or
\* remainingEnergy[e - 1][f] >= frameThresh; the note (s, e - s) is emitted
\* iff e - s > minNoteLen, and an onset with s >= T - 1 is skipped
C21_OnsetExtension ==
  [][IsOnsetStep =>
       LET s == noteStarts[idx]
           f == freqIdxs[idx]
           T == nRows(frames)
           ik == extendOnset(remainingEnergy, f, T, opts.frameThresh,
                             opts.energyTolerance, s + 1, 0)
           e == ik[1] - ik[2]
           emitted == /\ Len(noteEvents') = Len(noteEvents) + 1
                      /\ SubSeq(noteEvents', 1, Len(noteEvents)) = noteEvents
                      /\ noteEvents'[Len(noteEvents')].startFrame = s
                      /\ noteEvents'[Len(noteEvents')].durationFrames = e - s
                      /\ noteEvents'[Len(noteEvents')].pitchMidi = f + 21
       IN IF s >= T - 1
          THEN noteEvents' = noteEvents /\ remainingEnergy' = remainingEnergy
          ELSE /\ s + 1 <= e /\ e <= T - 1
               /\ ~hasRunBelow(remainingEnergy, f, s + 1, e - 1,
                               opts.frameThresh, opts.energyTolerance)
               /\ e = s + 1 \/ Cell(remainingEnergy, e - 1, f) >= opts.frameThresh
               /\ IF e - s > opts.minNoteLen THEN emitted
                  ELSE noteEvents' = noteEvents]_vars

\* the onset pass alone returned a note that starts at row 0 and ends, two
\* rows on, before a row below the threshold that the loop walked over and
\* went back from
C21_Witness ==
  /\ pc = "done"
  /\ ~opts.melodiaTrick
  /\ nRows(frames) = 4
  /\ \E n \in DOMAIN noteEvents :
       /\ noteEvents[n].startFrame = 0
       /\ noteEvents[n].durationFrames = 2
       /\ Cell(frames, 1, noteEvents[n].pitchMidi - MIDI_OFFSET) >= opts.frameThresh
       /\ Cell(frames, 2, noteEvents[n].pitchMidi - MIDI_OFFSET) < opts.frameThresh

(***************************************************************************)
(* The calls of outputToNotesPoly for the onset candidates.  With a        *)
(* negative onsetThresh a cell that is zero is above the threshold, so the *)
(* matrices of those calls store all their 88 columns.                     *)
(***************************************************************************)
\* the numbers of rows of the inputs
OnsetLengths == {1, 3}
\* the two columns that may be non-zero
OnsetColumns == {10, 50}

\* the matrix that has column[r] in row r of the columns of active and zero
\* in the other columns of stored
OnsetMatrix(column, active, stored) ==
  [r \in DOMAIN column |->
     [c \in stored |-> IF c \in active THEN column[r] ELSE 0]]

\* the frames: silence, a tone that sets in at the last row, a steady tone
OnsetFrames(len, stored) ==
  {OnsetMatrix([r \in 0 .. len - 1 |-> 0], {10}, stored),
   OnsetMatrix([r \in 0 .. len - 1 |-> IF r = len - 1 THEN 2 ELSE 0], {10}, stored),
   OnsetMatrix([r \in 0 .. len - 1 |-> 2], {10}, stored)}

\* silence
SilentFrames(len, stored) ==
  {OnsetMatrix([r \in 0 .. len - 1 |-> 0], {10}, stored)}

\* the thresholds are -1.0, 0 and 0.5
OnsetOptions ==
  [onsetThresh : {0 - 2, 0, 1},
   frameThresh : {1},
   minNoteLen : {0},
   inferOnsets : BOOLEAN,
   maxFreq : {NULL},
   minFreq : {NULL},
   melodiaTrick : {TRUE},
   energyTolerance : {1}]

\* the calls with a negative threshold have silent frames, and onsets in one
\* column with the levels 0 and 1.0
InitOnsets ==
  /\ opts \in OnsetOptions
  /\ \E len \in OnsetLengths :
       LET stored == IF opts.onsetThresh < 0 THEN 0 .. MAX_FREQ_IDX
                     ELSE OnsetColumns \cup {MAX_FREQ_IDX}
           levels == IF opts.onsetThresh < 0 THEN OnsetLevels ELSE Levels
           actives == IF opts.onsetThresh < 0 THEN {{10}} ELSE {{10}, OnsetColumns}
       IN /\ frames \in IF opts.onsetThresh < 0 THEN SilentFrames(len, stored)
                       ELSE OnsetFrames(len, stored)
          /\ \E column \in [0 .. len - 1 -> levels], active \in actives :
               onsets = OnsetMatrix(column, active, stored)
  /\ pc = "start"
  /\ noteStarts = <<>>
  /\ freqIdxs = <<>>
  /\ idx = 1
  /\ remainingEnergy = <<>>
  /\ noteEvents = <<>>
  /\ nIterations = 0
  /\ DriverIdle
  /\ FunctionsIdle

SpecOnsets == InitOnsets /\ [][Next]_vars

(***************************************************************************)
(* Properties of the onset candidates.                                     *)
(***************************************************************************)
\* the inferred onset matrix of the call, with its denominator
inferredOnsetsOfCall ==
  IF opts.inferOnsets THEN getInferredOnsets(onsets, frames)
  ELSE [num |-> onsets, den |-> 1]

\* m[r][c] is greater than the cell above it and the cell below it, as far
\* as the matrix has them
isStrictLocalMax(m, r, c) ==
  \A r2 \in {r - 1, r + 1} \cap Rows(m) : Gt(m[r][c], m[r2][c])

\* the cells that are strict local maxima of the inferred onsets along time
\* and greater than onsetThresh
peaksAboveThreshold ==
  LET inferred == inferredOnsetsOfCall
  IN {cell \in Rows(onsets) \X Cols(onsets) :
        /\ isStrictLocalMax(inferred.num, cell[1], cell[2])
        /\ Gt(inferred.num[cell[1]][cell[2]], opts.onsetThresh * inferred.den)}

\* the candidates of the onset pass, in the order it handles them
handledOnsets == [n \in DOMAIN noteStarts |-> <<noteStarts[n], freqIdxs[n]>>]

\* the candidates are the cells of cells, each once, by descending row and
\* within a row by descending column
HandlesInReverseOrder(cells) ==
  /\ {handledOnsets[n] : n \in DOMAIN handledOnsets} = cells
  /\ Len(handledOnsets) = Cardinality(cells)
  /\ \A n, m \in DOMAIN handledOnsets :
       n < m => \/ handledOnsets[n][1] > handledOnsets[m][1]
                \/ /\ handledOnsets[n][1] = handledOnsets[m][1]
                   /\ handledOnsets[n][2] > handledOnsets[m][2]

\* the candidates of the call have been collected
CandidatesCollected == pc \in {"onsets", "melodia", "done"}

\* C22 as stated: the onset candidates are exactly the strict local maxima
\* along time of the inferred onsets that are greater than onsetThresh, and
\* they are handled by descending row and within a row by descending column
C22_CandidatesArePeaks ==
  CandidatesCollected => HandlesInReverseOrder(peaksAboveThreshold)

\* C22 as amended: for onsetThresh >= 0 the onset candidates are exactly the
\* strict local maxima along time of the inferred onsets that are greater
\* than onsetThresh, handled by descending row and within a row by
\* descending column
C22_CandidatesArePeaksNonNegative ==
  (CandidatesCollected /\ opts.onsetThresh >= 0)
    => HandlesInReverseOrder(peaksAboveThreshold)

\* a call with onsetThresh >= 0 whose candidates are in two rows and in two
\* columns of a row, while a strict local maximum that is not above the
\* threshold is none of them
C22_Witness ==
  /\ CandidatesCollected
  /\ opts.onsetThresh >= 0
  /\ \E n, m \in DOMAIN handledOnsets :
       handledOnsets[n][1] = handledOnsets[m][1] /\ handledOnsets[n][2] # handledOnsets[m][2]
  /\ \E n, m \in DOMAIN handledOnsets : handledOnsets[n][1] # handledOnsets[m][1]
  /\ \E cell \in Rows(onsets) \X OnsetColumns :
       /\ isStrictLocalMax(inferredOnsetsOfCall.num, cell[1], cell[2])
       /\ inferredOnsetsOfCall.num[cell[1]][cell[2]] > 0
       /\ cell \notin peaksAboveThreshold

(***************************************************************************)
(* Properties of getInferredOnsets.                                        *)
(***************************************************************************)
\* C23: getInferredOnsets returns a matrix of the shape of onsets in which
\* every entry is >= the entry of onsets, rows 0 and 1 are the rows of
\* onsets, and the global maximum is the global maximum of onsets
C23_InferredOnsetsDominate ==
  Returned("getInferredOnsets") =>
    LET onsts == call[1].onsets
        num == returned[1].num
        den == returned[1].den
    IN /\ DOMAIN num = DOMAIN onsts
       /\ \A r \in DOMAIN onsts :
            /\ DOMAIN num[r] = DOMAIN onsts[r]
            /\ \A c \in DOMAIN onsts[r] :
                 /\ num[r][c] # NaN
                 /\ num[r][c] >= onsts[r][c] * den
                 /\ r < nDiff => num[r][c] = onsts[r][c] * den
       /\ globalMax(num) # NaN
       /\ globalMax(num) = globalMax(onsts) * den

(***************************************************************************)
(* Properties of argRelMax.                                                *)
(***************************************************************************)
\* the cells of A that are greater than every other cell of their column
\* at most order rows away
relativeMaxima(A, order) ==
  {cell \in (DOMAIN A) \X (UNION {DOMAIN A[r] : r \in DOMAIN A}) :
     \A r2 \in DOMAIN A :
        (r2 # cell[1] /\ r2 - cell[1] <= order /\ cell[1] - r2 <= order)
          => A[cell[1]][cell[2]] > A[r2][cell[2]]}

\* list holds the cells of cells, each once, column by column and with
\* ascending rows inside a column
ListsByColumn(list, cells) ==
  /\ {list[n] : n \in DOMAIN list} = cells
  /\ Len(list) = Cardinality(cells)
  /\ \A n, m \in DOMAIN list :
       n < m => \/ list[n][2] < list[m][2]
                \/ list[n][2] = list[m][2] /\ list[n][1] < list[m][1]

\* C24: argRelMax(A, order) returns exactly the cells that are greater than
\* every other cell of their column at most order rows away, listed column
\* by column with ascending rows inside each column
C24_ArgRelMaxCells ==
  Returned("argRelMax") =>
    /\ ~returned[1].threw
    /\ ListsByColumn(returned[1].value,
                     relativeMaxima(call[1].array, call[1].order))

(***************************************************************************)
(* The bounds of the melodia pass.                                         *)
(***************************************************************************)
\* C25: in every iteration of the melodia loop 0 <= iStart <= iMid <= iEnd
\* <= T - 1, and neither of the two errors of the loop is raised
C25_MelodiaBounds ==
  [][IsMelodiaIteration =>
       LET p == melodiaPass(remainingEnergy, nRows(frames), opts.frameThresh,
                            opts.energyTolerance)
       IN /\ 0 <= p.iStart
          /\ p.iStart <= p.iMid
          /\ p.iMid <= p.iEnd
          /\ p.iEnd <= nRows(frames) - 1
          /\ pc' # "error"]_vars

\* a call without onset candidates on three rows whose loudest cell is in
\* the last row, where the first iteration has iMid = iEnd = T - 1, and
\* whose first row is left for a later iteration, which has iStart = iMid = 0
C25_Witness ==
  /\ pc = "done"
  /\ opts.melodiaTrick
  /\ Len(noteStarts) = 0
  /\ nRows(frames) = 3
  /\ nIterations = 2
  /\ \E c \in Cols(frames) :
       /\ frames[2][c] = 2
       /\ frames[1][c] < 2
       /\ frames[0][c] < 2
       /\ frames[0][c] > opts.frameThresh
       /\ \E n \in DOMAIN noteEvents :
            noteEvents[n].startFrame = 0 /\ noteEvents[n].pitchMidi = c + MIDI_OFFSET

(***************************************************************************)
(* remainingEnergy and frames.                                             *)
(***************************************************************************)
\* every cell of remainingEnergy is 0 or the cell of frames
ZeroOrFrames ==
  /\ DOMAIN remainingEnergy = DOMAIN frames
  /\ \A r \in DOMAIN frames :
       /\ DOMAIN remainingEnergy[r] = DOMAIN frames[r]
       /\ \A c \in DOMAIN frames[r] :
            remainingEnergy[r][c] \in {0, frames[r][c]}

\* the cells of remainingEnergy that are 0 stay 0 in the step
ZeroStaysZero ==
  \A r \in DOMAIN remainingEnergy : \A c \in DOMAIN remainingEnergy[r] :
     remainingEnergy[r][c] = 0 => remainingEnergy'[r][c] = 0

\* a step of the two passes keeps the zeros of remainingEnergy and does not
\* write frames
PassKeepsZerosAndFrames ==
  pc \in {"onsets", "melodia"} => (ZeroStaysZero /\ frames' = frames)

\* C26: during the onset pass and the melodia pass every cell of
\* remainingEnergy is 0 or the cell of frames, a cell that is 0 stays 0, and
\* frames is not written once the frequencies have been constrained
C26_EnergyOnlyZeroed ==
  /\ [](pc \in {"onsets", "melodia", "done"} => ZeroOrFrames)
  /\ [][PassKeepsZerosAndFrames]_vars

\* a call with a frequency bound that changed frames, in which the onset
\* pass and the melodia pass both zeroed cells of remainingEnergy that are
\* not zero in frames
C26_Witness ==
  /\ pc = "done"
  /\ opts.maxFreq # NULL \/ opts.minFreq # NULL
  /\ Len(noteStarts) > 0
  /\ nIterations > 0
  /\ \E n \in DOMAIN noteEvents : n <= Len(noteStarts) /\ n < Len(noteEvents)
  /\ \E r \in DOMAIN frames : \E c \in DOMAIN frames[r] :
       remainingEnergy[r][c] = 0 /\ frames[r][c] # 0

(***************************************************************************)
(* Properties of the pitch bends.                                          *)
(***************************************************************************)
\* the columns of a contour row that are positive
positiveBins(row) == {c \in DOMAIN row : row[c] > 0}

\* C27: for a note of pitch p with nominal bin n = 3 * (p - 21), a frame
\* whose contour row is positive at one bin b only, with |b - n| <= 25, gets
\* the pitch bend b - n
C27_SinglePeakBend ==
  Returned("addPitchBendsToNoteEvents") =>
    \A k \in DOMAIN call[1].notes :
       LET note == call[1].notes[k]
           n == 3 * (note.pitchMidi - 21)
       IN \A r \in 0 .. note.durationFrames - 1 :
            LET bins == positiveBins(call[1].contours[note.startFrame + r])
            IN \A b \in bins :
                 (bins = {b} /\ b - n <= 25 /\ n - b <= 25 /\ 0 <= b /\ b <= 263)
                   => returned[1][k].pitchBends[r] = b - n

\* a note of pitch 101, whose window is cut at bin 263, with a frame whose
\* only positive bin is below the nominal bin and a frame whose only
\* positive bin is bin 263
C27_Witness ==
  /\ Returned("addPitchBendsToNoteEvents")
  /\ \E k \in DOMAIN call[1].notes :
       LET note == call[1].notes[k]
       IN /\ note.pitchMidi = 101
          /\ note.startFrame = 0
          /\ note.durationFrames = 2
          /\ positiveBins(call[1].contours[0]) = {236}
          /\ positiveBins(call[1].contours[1]) = {263}
          /\ returned[1][k].pitchBends[0] = 0 - 4
          /\ returned[1][k].pitchBends[1] = 23

\* C28: for the pitch of a note, with nominal bin n, the slice of Gaussian
\* weights is as long as the contour window [freqStart, freqEnd), column j
\* of the window is weighted by gaussian[j + max(0, 25 - n)], and the
\* nominal bin gets the centre weight gaussian[25]
C28_GaussianAligned ==
  Returned("addPitchBendsToNoteEvents") =>
    \A k \in DOMAIN call[1].notes :
       LET note == call[1].notes[k]
           n == 3 * (note.pitchMidi - 21)
           lo == Max(0, n - 25)
           hi == Min(264, n + 26)
           shift == Max(0, 25 - n)
           full == gaussian(51, 5)
           weights == freqGuassianSubMatrix(freqIdxOf(note))
           weighted == pitchBendSubmatrix(call[1].contours, note)
       IN /\ freqIdxOf(note) = n
          /\ freqStartIdx(n) = lo /\ freqEndIdx(n) = hi
          /\ DOMAIN weights = 0 .. (hi - lo - 1)
          /\ \A j \in DOMAIN weights : weights[j] = full[j + shift]
          /\ weights[n - lo] = full[25]
          /\ \A m \in DOMAIN weights : m # n - lo => weights[m] < weights[n - lo]
          /\ \A r \in 0 .. note.durationFrames - 1 :
               \A j \in 0 .. (hi - lo - 1) :
                  weighted[r][j] =
                    (IF lo + j \in DOMAIN call[1].contours[note.startFrame + r]
                     THEN call[1].contours[note.startFrame + r][lo + j] ELSE 0)
                      * full[j + shift]

\* a note of the lowest pitch, whose window has lost its 25 bins below the
\* nominal bin 0, with a frame that is positive at bin 0 and has no bend
C28_Witness ==
  /\ Returned("addPitchBendsToNoteEvents")
  /\ \E k \in DOMAIN call[1].notes :
       LET note == call[1].notes[k]
       IN /\ note.pitchMidi = MIDI_OFFSET
          /\ note.durationFrames >= 1
          /\ DOMAIN freqGuassianSubMatrix(freqIdxOf(note)) = 0 .. 25
          /\ note.startFrame \in DOMAIN call[1].contours
          /\ 0 \in DOMAIN call[1].contours[note.startFrame]
          /\ call[1].contours[note.startFrame][0] > 0
          /\ returned[1][k].pitchBends[0] = 0

\* the numbers of rows of the three matrices of a chunk
rowCounts(c) == {c[name].count : name \in OutputNames}

\* C29: the three matrices of every chunk handed to the sink, or about to be,
\* have one and the same number of rows r with 1 <= r <= 142, and every
\* chunk but the last handed over has 142 rows
C29_ChunkRowCounts ==
  LET chunks == IF chunk = NULL THEN delivered ELSE Append(delivered, chunk[1])
  IN \A n \in DOMAIN chunks :
       /\ \E r \in 1 .. ANNOT_N_FRAMES - 30 : rowCounts(chunks[n]) = {r}
       /\ n < Len(chunks) => rowCounts(chunks[n]) = {142}

\* C29: evaluateModel is done; the sink received a chunk of 142 rows and
\* then a last chunk of a single row
C29_Witness ==
  /\ dpc = "done"
  /\ Len(delivered) = 2
  /\ rowCounts(delivered[1]) = {142}
  /\ rowCounts(delivered[2]) = {1}

\* C30: the time of a frame f is 2560000 * f - 2276900 * floor(f / 172) units
\* of 1 / 220500000 s and grows with every frame of a note, also into the
\* next window; a note of one frame or more gets a duration above 0, a note
\* that starts at an earlier frame gets an earlier start time, and pitchMidi,
\* amplitude and pitchBends are those of the note
C30_FrameTimes ==
  Returned("noteFramesToTime") =>
    LET notes == call[1].notes
        times == returned[1]
    IN /\ DOMAIN times = DOMAIN notes
       /\ \A k \in DOMAIN notes :
            LET f == notes[k].startFrame
                d == notes[k].durationFrames
            IN /\ times[k].startTimeSeconds = 2560000 * f - 2276900 * (f \div 172)
               /\ \A g \in f .. f + d - 1 :
                    modelFrameToTime(g) < modelFrameToTime(g + 1)
               /\ d >= 1 => times[k].durationSeconds > 0
               /\ times[k].pitchMidi = notes[k].pitchMidi
               /\ times[k].amplitude = notes[k].amplitude
               /\ times[k].pitchBends = notes[k].pitchBends
       /\ \A j, k \in DOMAIN notes :
            notes[j].startFrame < notes[k].startFrame =>
              times[j].startTimeSeconds < times[k].startTimeSeconds

\* C30: a note of one frame that is the last of its window, before a note
\* that starts with the next window: its duration is the 283100 units left
\* of a frame when the window offset is taken off
C30_Witness ==
  /\ Returned("noteFramesToTime")
  /\ DOMAIN call[1].notes = 0 .. 1
  /\ call[1].notes[0].startFrame = ANNOT_N_FRAMES - 1
  /\ call[1].notes[0].durationFrames = 1
  /\ call[1].notes[1].startFrame = ANNOT_N_FRAMES
  /\ returned[1][0].durationSeconds = 283100
  /\ returned[1][0].startTimeSeconds < returned[1][1].startTimeSeconds

====
